---------------------------- MODULE Spec2Model ----------------------------
(***************************************************************************)
(* libchunkstream-cpp: chunk header codec, MemoryPool, Sender slot ring,   *)
(* ReceivingFrame and Receiver, as state machines translated from the      *)
(* sources under src/.                                                     *)
(***************************************************************************)
EXTENDS Integers, Sequences, FiniteSets, TLC

VARIABLES
  cdc,            \* codec harness: a header, its wire form and the decoded header
  mp,             \* MemoryPool harness: one pool, the pointers its callers hold
  buffer_,        \* Sender: the ring of SendingFrame slots
  buffer_index_,  \* Sender: round-robin index
  id_,            \* Sender: next frame id
  app,            \* Sender: the application thread inside Send
  hp,             \* Sender: the reactor thread inside __HandlePacket
  sends,          \* Sender: async_send_to operations not yet completed
  net,            \* datagrams on their way to the Receiver
  naks,           \* datagrams on their way to the Sender
  assembling_queue_,  \* Receiver: OrderedHashContainer of (id, ReceivingFrame)
  frames,         \* Receiver: every ReceivingFrame object constructed so far
  dropped_queue_, \* Receiver: (id, data) of dropped frames not yet evicted
  data_pool_,     \* Receiver: pool of reassembly blocks
  raw_pool_,      \* Receiver: pool of receive buffers
  resend_pool_,   \* Receiver: pool of outgoing request headers
  mem,            \* Receiver: the bytes of data_pool_'s arena
  counts,         \* Receiver: assembled_count_, dropped_count_
  recv_buf,       \* Receiver: the raw block of the posted receive (0: none)
  sink,           \* the frames handed to the user's callback, in order
  closures,       \* the release closures the user has not called yet
  hist,           \* what the run has done so far: sizes of the frames passed to
                  \* Send, datagrams handed to async_send_to, frames
                  \* constructed, ids dropped, undefined behaviour met
  run,            \* what a run may do at most: frames sent, requests handled,
                  \* ReceivingFrame objects constructed
  frag,           \* Sender: one call of Send on a fresh Sender, step by step
  ctl,            \* Receiver: running_, the state of io_context_, the position
                  \* of the user's thread inside Stop, and whether the reactor
                  \* was inside a handler when io_context_ was stopped
  ohc             \* an OrderedHashContainer on its own: ordered_data_ and
                  \* key_to_iterator_, and the entries pushed and not removed

codecVars == <<cdc>>
poolVars == <<mp>>
senderVars == <<buffer_, buffer_index_, id_, app, hp, sends>>
netVars == <<net, naks>>
recvVars == <<assembling_queue_, frames, dropped_queue_, data_pool_, raw_pool_,
              resend_pool_, mem, counts, recv_buf, sink, closures, hist, ctl>>
envVars == <<run>>
ohcVars == <<ohc>>
fragVars == <<frag>>
vars == <<cdc, mp, buffer_, buffer_index_, id_, app, hp, sends, net, naks,
          assembling_queue_, frames, dropped_queue_, data_pool_, raw_pool_,
          resend_pool_, mem, counts, recv_buf, sink, closures, hist, run, frag,
          ctl, ohc>>

(***************************************************************************)
(* Chunk header codec (chunk_header.h, HostToNetwork / NetworkToHost).     *)
(***************************************************************************)

\* An unsigned integer of w bytes is the sequence of its w bytes, most
\* significant first (its base-256 digits), so that the full 32-bit range is
\* represented.
Byte == 0 .. 255

RECURSIVE Reverse(_)
Reverse(s) == IF s = <<>> THEN <<>> ELSE Reverse(Tail(s)) \o <<Head(s)>>

\* conversion of an unsigned value to an unsigned type of w bytes: the low
\* bytes are kept, missing high bytes are zero
RECURSIVE ToWidth(_, _)
ToWidth(v, w) ==
  IF Len(v) = w THEN v
  ELSE IF Len(v) > w THEN ToWidth(Tail(v), w)
  ELSE ToWidth(<<0>> \o v, w)

\* htonl/ntohl (uint32_t -> uint32_t) and htons/ntohs (uint16_t -> uint16_t):
\* a byte swap on a little-endian host, the identity on a big-endian one
htonl(le, v) == IF le THEN Reverse(ToWidth(v, 4)) ELSE ToWidth(v, 4)
htons(le, v) == IF le THEN Reverse(ToWidth(v, 2)) ELSE ToWidth(v, 2)
ntohl(le, v) == IF le THEN Reverse(ToWidth(v, 4)) ELSE ToWidth(v, 4)
ntohs(le, v) == IF le THEN Reverse(ToWidth(v, 2)) ELSE ToWidth(v, 2)

\* struct ChunkHeader: the result of each conversion is stored in a field of
\* the field's width
ChunkHeader(id, total_size, total_chunks, chunk_index, chunk_size, transmission_type) ==
  [id |-> ToWidth(id, 4), total_size |-> ToWidth(total_size, 4),
   total_chunks |-> ToWidth(total_chunks, 2), chunk_index |-> ToWidth(chunk_index, 2),
   chunk_size |-> ToWidth(chunk_size, 4),
   transmission_type |-> ToWidth(transmission_type, 2)]

\* a plausible slip: chunk_size converted with the 16-bit swap
HostToNetworkTruncating(le, header) ==
  ChunkHeader(htonl(le, header.id), htonl(le, header.total_size),
              htons(le, header.total_chunks), htons(le, header.chunk_index),
              htons(le, header.chunk_size), htons(le, header.transmission_type))

\* ChunkHeader HostToNetwork(const ChunkHeader&)
HostToNetwork(le, header) ==
  ChunkHeader(htonl(le, header.id), htonl(le, header.total_size),
              htons(le, header.total_chunks), htons(le, header.chunk_index),
              htonl(le, header.chunk_size), htons(le, header.transmission_type))

\* ChunkHeader NetworkToHost(const ChunkHeader&)
NetworkToHost(le, header) ==
  ChunkHeader(ntohl(le, header.id), ntohl(le, header.total_size),
              ntohs(le, header.total_chunks), ntohs(le, header.chunk_index),
              ntohl(le, header.chunk_size), ntohs(le, header.transmission_type))

\* void HostToNetwork(ChunkHeader*): the fields are overwritten one by one
HostToNetworkInPlace(le, header) ==
  LET h1 == [header EXCEPT !.id = htonl(le, @)]
      h2 == [h1 EXCEPT !.total_size = htonl(le, @)]
      h3 == [h2 EXCEPT !.total_chunks = htons(le, @)]
      h4 == [h3 EXCEPT !.chunk_index = htons(le, @)]
      h5 == [h4 EXCEPT !.chunk_size = htonl(le, @)]
  IN [h5 EXCEPT !.transmission_type = htons(le, @)]

\* void NetworkToHost(ChunkHeader*)
NetworkToHostInPlace(le, header) ==
  LET h1 == [header EXCEPT !.id = ntohl(le, @)]
      h2 == [h1 EXCEPT !.total_size = ntohl(le, @)]
      h3 == [h2 EXCEPT !.total_chunks = ntohs(le, @)]
      h4 == [h3 EXCEPT !.chunk_index = ntohs(le, @)]
      h5 == [h4 EXCEPT !.chunk_size = ntohl(le, @)]
  IN [h5 EXCEPT !.transmission_type = ntohs(le, @)]

\* field values the harness draws from: both ends of each range and values
\* whose bytes all differ
Values32 == {<<0, 0, 0, 0>>, <<0, 0, 0, 1>>, <<1, 2, 3, 4>>, <<255, 255, 255, 255>>}
Values16 == {<<0, 0>>, <<0, 1>>, <<1, 2>>, <<255, 255>>}

CodecHeaders ==
  [id : Values32, total_size : Values32, total_chunks : Values16,
   chunk_index : Values16, chunk_size : Values32, transmission_type : Values16]

CodecInit ==
  \E h \in CodecHeaders, le \in BOOLEAN :
    cdc = [le |-> le, host |-> h, wire |-> h, back |-> h, phase |-> "host", way |-> "none"]

\* encode with the by-value function
CodecEncodeValue ==
  /\ cdc.phase = "host"
  /\ cdc' = [cdc EXCEPT !.wire = HostToNetwork(cdc.le, cdc.host),
                        !.phase = "wire", !.way = "value"]
  /\ UNCHANGED <<poolVars, envVars, ohcVars, fragVars, senderVars, netVars, recvVars>>

\* encode with the in-place function
CodecEncodeInPlace ==
  /\ cdc.phase = "host"
  /\ cdc' = [cdc EXCEPT !.wire = HostToNetworkInPlace(cdc.le, cdc.host),
                        !.phase = "wire", !.way = "inplace"]
  /\ UNCHANGED <<poolVars, envVars, ohcVars, fragVars, senderVars, netVars, recvVars>>

\* decode with the function of the same kind
CodecDecode ==
  /\ cdc.phase = "wire"
  /\ cdc' = [cdc EXCEPT !.back = IF cdc.way = "value"
                                  THEN NetworkToHost(cdc.le, cdc.wire)
                                  ELSE NetworkToHostInPlace(cdc.le, cdc.wire),
                        !.phase = "back"]
  /\ UNCHANGED <<poolVars, envVars, ohcVars, fragVars, senderVars, netVars, recvVars>>

CodecNext == CodecEncodeValue \/ CodecEncodeInPlace \/ CodecDecode

(***************************************************************************)
(* MemoryPool (memory_pool.cpp).  A pointer is an address; size_t          *)
(* arithmetic wraps at SizeMod.                                            *)
(***************************************************************************)

\* addresses the harness hands to Release: 0 .. MaxAddr (0 is nullptr)
MaxAddr == 11
\* blocks of the harness pool
PoolBlocks == 2
\* entries the free stack may hold in the harness
MaxFreeLen == 3

\* size_t wraps here; the addresses of objects are far below it
SizeMod == 65536

\* pool_.data() of the harness pool and its BLOCK_SIZE
HarnessPoolStart == 4
HarnessBlockSize == 2

\* MemoryPool::MemoryPool: all blocks free, pushed in descending index.
\* free_blocks_ is a stack; its top is the last element.
RECURSIVE DescendingFrom(_)
DescendingFrom(n) == IF n = 0 THEN <<>> ELSE <<n - 1>> \o DescendingFrom(n - 1)

MemoryPool(start, block_size, buffer_size) ==
  [start |-> start, BLOCK_SIZE |-> block_size, BUFFER_SIZE |-> buffer_size,
   free_blocks_ |-> DescendingFrom(buffer_size)]

\* MemoryPool::Acquire: the pointer returned (0 = nullptr)
AcquirePtr(pool) ==
  IF pool.free_blocks_ = <<>> THEN 0
  ELSE pool.start + pool.free_blocks_[Len(pool.free_blocks_)] * pool.BLOCK_SIZE

\* MemoryPool::Acquire: the pool afterwards
AcquirePool(pool) ==
  IF pool.free_blocks_ = <<>> THEN pool
  ELSE [pool EXCEPT !.free_blocks_ = SubSeq(@, 1, Len(@) - 1)]

\* a plausible slip: the index check compares with > instead of >=
ReleaseOffByOne(pool, ptr) ==
  IF ptr = 0 THEN pool
  ELSE LET offset == (ptr - pool.start) % SizeMod
           idx == offset \div pool.BLOCK_SIZE
       IN IF offset % pool.BLOCK_SIZE # 0 \/ idx > pool.BUFFER_SIZE THEN pool
          ELSE [pool EXCEPT !.free_blocks_ = Append(@, idx)]

\* MemoryPool::Release
Release(pool, ptr) ==
  IF ptr = 0 THEN pool
  ELSE LET offset == (ptr - pool.start) % SizeMod
           idx == offset \div pool.BLOCK_SIZE
       IN IF offset % pool.BLOCK_SIZE # 0 \/ idx >= pool.BUFFER_SIZE THEN pool
          ELSE [pool EXCEPT !.free_blocks_ = Append(@, idx)]

\* the pointers of a pool's blocks
BlockPtrs(pool) == {pool.start + i * pool.BLOCK_SIZE : i \in 0 .. pool.BUFFER_SIZE - 1}

\* how often idx is on the free stack
FreeCount(pool, idx) ==
  Cardinality({k \in 1 .. Len(pool.free_blocks_) : pool.free_blocks_[k] = idx})

PoolInit ==
  mp = [pool |-> MemoryPool(HarnessPoolStart, HarnessBlockSize, PoolBlocks),
        held |-> <<>>, op |-> "new", arg |-> 0, ret |-> 0, before |-> <<>>]

\* a caller calls Acquire and keeps the pointer
PoolAcquire ==
  /\ Len(mp.held) < PoolBlocks + 1
  /\ LET p == AcquirePtr(mp.pool)
     IN mp' = [pool |-> AcquirePool(mp.pool),
               held |-> IF p = 0 THEN mp.held ELSE Append(mp.held, p),
               op |-> "Acquire", arg |-> 0, ret |-> p,
               before |-> mp.pool.free_blocks_]
  /\ UNCHANGED <<codecVars, senderVars, netVars, recvVars, envVars, ohcVars, fragVars>>

\* s without its first occurrence of p
RECURSIVE RemoveFirst(_, _)
RemoveFirst(s, p) ==
  IF s = <<>> THEN <<>>
  ELSE IF Head(s) = p THEN Tail(s) ELSE <<Head(s)>> \o RemoveFirst(Tail(s), p)

\* a caller calls Release with any address: one it holds, one it released
\* before, nullptr, one outside the arena, one inside a block
PoolRelease ==
  \E p \in 0 .. MaxAddr :
    /\ Len(mp.pool.free_blocks_) < MaxFreeLen
    /\ mp' = [pool |-> Release(mp.pool, p),
              held |-> RemoveFirst(mp.held, p),
              op |-> "Release", arg |-> p, ret |-> 0,
              before |-> mp.pool.free_blocks_]
    /\ UNCHANGED <<codecVars, senderVars, netVars, recvVars, envVars, ohcVars, fragVars>>

PoolNext == PoolAcquire \/ PoolRelease

(***************************************************************************)
(* Wire format shared by Sender and Receiver.                              *)
(***************************************************************************)

\* sizeof(ChunkHeader): 18 bytes of fields, padded to the 4-byte alignment of
\* uint32_t
CHUNKHEADER_SIZE == 20

\* constructor argument mtu of both endpoints
MTU == 50

\* PAYLOAD(MTU - 20 - 8 - CHUNKHEADER_SIZE), for the constructor argument mtu
PayloadOf(mtu) == mtu - 20 - 8 - CHUNKHEADER_SIZE

PAYLOAD == PayloadOf(MTU)

\* chunks of the largest frame the application sends
MaxChunks == 2

\* constructor argument max_data_size of both endpoints
max_data_size == MaxChunks * PAYLOAD - 1

\* the hosts are little-endian: the conversions do swap
HostLittleEndian == TRUE

\* an integer below 2^31 as an unsigned value of w bytes, and back
RECURSIVE Digits(_, _)
Digits(n, w) == IF w = 0 THEN <<>> ELSE Digits(n \div 256, w - 1) \o <<n % 256>>

RECURSIVE Value(_)
Value(d) == IF d = <<>> THEN 0 ELSE Value(SubSeq(d, 1, Len(d) - 1)) * 256 + d[Len(d)]

\* a header with integer fields as the struct, and back
Pack(h) ==
  ChunkHeader(Digits(h.id, 4), Digits(h.total_size, 4), Digits(h.total_chunks, 2),
              Digits(h.chunk_index, 2), Digits(h.chunk_size, 4),
              Digits(h.transmission_type, 2))

Unpack(c) ==
  [id |-> Value(c.id), total_size |-> Value(c.total_size),
   total_chunks |-> Value(c.total_chunks), chunk_index |-> Value(c.chunk_index),
   chunk_size |-> Value(c.chunk_size), transmission_type |-> Value(c.transmission_type)]

\* the header bytes an endpoint puts on the wire, and what it reads from them
WireHeader(h) == HostToNetwork(HostLittleEndian, Pack(h))
ReadHeader(w) == Unpack(NetworkToHostInPlace(HostLittleEndian, w))

Min(a, b) == IF b < a THEN b ELSE a

\* ceil(a / b) over the integers
CeilDiv(a, b) == (a + b - 1) \div b

\* Send, line 66: static_cast<uint16_t>((total_size + PAYLOAD - 1) / PAYLOAD)
TotalChunks(total_size, payload) == ((total_size + payload - 1) \div payload) % 65536

\* Send, lines 97-98: min(PAYLOAD, total_size - i * PAYLOAD)
ChunkSize(total_size, i, payload) == Min(payload, total_size - i * payload)

\* GenerateTestData: the bytes the application sends as frame id
TestByte(id, p) == 16 * (id + 1) + p
TestData(id, size) == [p \in 1 .. size |-> TestByte(id, p)]

(***************************************************************************)
(* Sender (unnamed/part_002, lines 1-300).                                 *)
(***************************************************************************)

\* constructor argument buffer_size of the Sender
SenderSlots == 2
\* frames the application sends
MaxSends == 3
\* retransmission requests the Sender handles
MaxNaks == 2

\* sizes the application passes to Send: one full chunk, and the largest
\* frame, whose last chunk is partial
SendSizes == {PAYLOAD, max_data_size}

ZeroHeader == Pack([id |-> 0, total_size |-> 0, total_chunks |-> 0,
                    chunk_index |-> 0, chunk_size |-> 0, transmission_type |-> 0])

\* std::vector<uint8_t>(CHUNKHEADER_SIZE + PAYLOAD): header bytes, payload bytes
EmptyChunk == [hdr |-> ZeroHeader, payload |-> [p \in 1 .. PAYLOAD |-> 0]]

\* Sender::Sender, lines 31-48: with max_data_size > 0, buffer_size slots with
\* id = -1, ref_count = 0 and ceil(max_data_size / PAYLOAD) chunk buffers
\* each; with max_data_size = 0 no slot is made and buffer_ stays empty
SenderBufferOf(buffer_size, max_size) ==
  LET total_chunks == (max_size + PAYLOAD - 1) \div PAYLOAD
  IN [i \in 0 .. (IF max_size > 0 THEN buffer_size ELSE 0) - 1 |->
        [id |-> -1, ref_count |-> 0,
         chunks |-> [j \in 0 .. total_chunks - 1 |-> EmptyChunk],
         headers |-> [j \in 0 .. total_chunks - 1 |-> Unpack(ZeroHeader)]]]

SenderBuffer(buffer_size) == SenderBufferOf(buffer_size, max_data_size)

\* refused records that this call of Send found a slot with ref_count # 0
AppIdle == [pc |-> "idle", header |-> Unpack(ZeroHeader), data |-> <<>>, idx |-> 0, i |-> 0,
            refused |-> FALSE]
HpIdle == [pc |-> "idle", slot |-> 0, header |-> Unpack(ZeroHeader), handled |-> 0]

\* buffer_.size()
BufferSize == Cardinality(DOMAIN buffer_)

SenderInitOf(buffer_size, max_size) ==
  /\ buffer_ = SenderBufferOf(buffer_size, max_size)
  /\ buffer_index_ = 0
  /\ id_ = 0
  /\ app = AppIdle
  /\ hp = HpIdle
  /\ sends = <<>>

SenderInit(buffer_size) == SenderInitOf(buffer_size, max_data_size)

\* Send, lines 63-69: the header of the frame; id_++
SendEnter ==
  \E size \in SendSizes :
    /\ app.pc = "idle"
    /\ id_ < run.sends
    /\ app' = [pc |-> "pick",
               header |-> [id |-> id_, total_size |-> size,
                           total_chunks |-> TotalChunks(size, PAYLOAD),
                           chunk_index |-> 0, chunk_size |-> 0,
                           transmission_type |-> 0],
               data |-> TestData(id_, size), idx |-> 0, i |-> 0, refused |-> FALSE]
    /\ id_' = id_ + 1
    /\ hist' = [hist EXCEPT !.sent = @ @@ (id_ :> size)]
    /\ UNCHANGED <<buffer_, buffer_index_, hp, sends, netVars, codecVars, poolVars, envVars, ohcVars, fragVars,
                   assembling_queue_, frames, dropped_queue_, data_pool_, raw_pool_,
                   resend_pool_, mem, counts, recv_buf, sink, closures, ctl>>

\* Send, lines 74-78: idx = buffer_index_.fetch_add(1) % buffer_.size(), under
\* buffering_mutex_, which __HandlePacket holds from entry to return.  With
\* an empty buffer_ the remainder is a division by zero: the call traps, or
\* goes on to buffer_[idx] of an empty vector; Send is not followed further
\* ("fault").
SendPick ==
  /\ app.pc = "pick"
  /\ hp.pc = "idle"
  /\ IF BufferSize = 0
     THEN /\ app' = [app EXCEPT !.pc = "fault"]
          /\ UNCHANGED buffer_index_
     ELSE /\ app' = [app EXCEPT !.pc = "try", !.idx = buffer_index_ % BufferSize]
          /\ buffer_index_' = (buffer_index_ + 1) % BufferSize
  /\ UNCHANGED <<buffer_, id_, hp, sends, netVars, codecVars, poolVars, envVars, ohcVars, fragVars, recvVars>>

\* a plausible slip: the slot is claimed without looking at ref_count
SendTrySlotAlways(slot, header) ==
  [slot EXCEPT !.id = header.id, !.ref_count = header.total_chunks]

\* Send, lines 80-85, under the slot's ref_count_lock: the slot afterwards
SendTrySlot(slot, header) ==
  IF slot.ref_count = 0
  THEN [slot EXCEPT !.id = header.id, !.ref_count = header.total_chunks]
  ELSE slot

\* Send, lines 80-93: claim the slot if its ref_count is 0, else try the next
SendTry ==
  /\ app.pc = "try"
  /\ LET slot == buffer_[app.idx]
         claimed == SendTrySlot(slot, app.header)
     IN IF claimed.id = app.header.id
        THEN /\ buffer_' = [buffer_ EXCEPT ![app.idx] = claimed]
             /\ app' = [app EXCEPT !.pc = "fill", !.i = 0]
        ELSE /\ app' = [app EXCEPT !.pc = "pick", !.idx = 0, !.refused = TRUE]
             /\ UNCHANGED buffer_
  /\ UNCHANGED <<buffer_index_, id_, hp, sends, netVars, codecVars, poolVars, envVars, ohcVars, fragVars, recvVars>>

\* the first n bytes of buf replaced by bytes
Overwrite(buf, bytes) ==
  [p \in 1 .. Len(buf) |-> IF p <= Len(bytes) THEN bytes[p] ELSE buf[p]]

\* Send, lines 95-123, one iteration: fill chunks[i] and post async_send_to
SendChunk ==
  /\ app.pc = "fill"
  /\ app.i < app.header.total_chunks
  /\ LET i == app.i
         header == [app.header EXCEPT
                      !.chunk_index = i,
                      !.chunk_size = ChunkSize(app.header.total_size, i, PAYLOAD)]
         bytes == SubSeq(app.data, i * PAYLOAD + 1, i * PAYLOAD + header.chunk_size)
         packet == [hdr |-> WireHeader(header),
                    payload |-> Overwrite(buffer_[app.idx].chunks[i].payload, bytes)]
     IN /\ buffer_' = [buffer_ EXCEPT ![app.idx].headers[i] = header,
                                      ![app.idx].chunks[i] = packet]
        /\ sends' = Append(sends, [slot |-> app.idx, chunk |-> i,
                                   size |-> header.chunk_size,
                                   sent |-> [hdr |-> packet.hdr, payload |-> bytes]])
        /\ app' = [app EXCEPT !.i = i + 1]
        /\ hist' = [hist EXCEPT !.posted = @ \cup {[hdr |-> packet.hdr, payload |-> bytes]}]
  /\ UNCHANGED <<buffer_index_, id_, hp, netVars, codecVars, poolVars, envVars, ohcVars, fragVars,
                 assembling_queue_, frames, dropped_queue_, data_pool_, raw_pool_,
                 resend_pool_, mem, counts, recv_buf, sink, closures, ctl>>

\* Send returns
SendReturn ==
  /\ app.pc = "fill"
  /\ app.i >= app.header.total_chunks
  /\ app' = AppIdle
  /\ UNCHANGED <<buffer_, buffer_index_, id_, hp, sends, netVars, codecVars, poolVars, envVars, ohcVars, fragVars, recvVars>>

\* a plausible slip: the completion handler releases two references
CompletionDecrementTwice(slot) == [slot EXCEPT !.ref_count = @ - 2]

\* Send, lines 115-122: the completion handler, under ref_count_lock
CompletionDecrement(slot) == [slot EXCEPT !.ref_count = @ - 1]

\* The oldest async_send_to completes on the reactor thread.  The datagram
\* was either written to the socket when the operation was posted, or is read
\* from the chunk buffer when the reactor performs the operation.
AsyncSendComplete ==
  /\ sends # <<>>
  /\ hp.pc = "idle"
  /\ LET op == Head(sends)
         now == [hdr |-> buffer_[op.slot].chunks[op.chunk].hdr,
                 payload |-> SubSeq(buffer_[op.slot].chunks[op.chunk].payload, 1, op.size)]
     IN /\ \E d \in {op.sent, now} : net' = net \cup {d}
        /\ buffer_' = [buffer_ EXCEPT ![op.slot] = CompletionDecrement(@)]
  /\ sends' = Tail(sends)
  /\ UNCHANGED <<buffer_index_, id_, app, hp, naks, codecVars, poolVars, envVars, ohcVars, fragVars, recvVars>>

\* the id of a slot as the comparisons of the search see it: SendingFrame::id
\* holds -1 in an empty slot, which as an unsigned value is above every id
SentinelUnsigned == 2147483647
AsUnsigned(id) == IF id < 0 THEN SentinelUnsigned ELSE id
AsDeclared(id, signed) == IF signed THEN id ELSE AsUnsigned(id)

\* a search that ends on the slot where the loop stopped instead of on "not
\* found"
RECURSIVE RotatedSearchNearest(_, _, _, _, _)
RotatedSearchNearest(buf, left, right, id, signed) ==
  IF left > right THEN Min(left, Cardinality(DOMAIN buf) - 1)
  ELSE LET mid == left + (right - left) \div 2
       IN IF AsUnsigned(buf[mid].id) = id THEN mid
          ELSE IF AsDeclared(buf[left].id, signed) <= AsDeclared(buf[mid].id, signed)
          THEN IF id >= AsUnsigned(buf[left].id) /\ id < AsUnsigned(buf[mid].id)
               THEN RotatedSearchNearest(buf, left, mid - 1, id, signed)
               ELSE RotatedSearchNearest(buf, mid + 1, right, id, signed)
          ELSE IF id > AsUnsigned(buf[mid].id) /\ id <= AsUnsigned(buf[right].id)
               THEN RotatedSearchNearest(buf, mid + 1, right, id, signed)
               ELSE RotatedSearchNearest(buf, left, mid - 1, id, signed)

\* __HandlePacket, lines 192-223: the rotated binary search; the slot index
\* found or -1
RECURSIVE RotatedSearch(_, _, _, _, _)
RotatedSearch(buf, left, right, id, signed) ==
  IF left > right THEN -1
  ELSE LET mid == left + (right - left) \div 2
       IN IF AsUnsigned(buf[mid].id) = id THEN mid
          ELSE IF AsDeclared(buf[left].id, signed) <= AsDeclared(buf[mid].id, signed)
          THEN IF id >= AsUnsigned(buf[left].id) /\ id < AsUnsigned(buf[mid].id)
               THEN RotatedSearch(buf, left, mid - 1, id, signed)
               ELSE RotatedSearch(buf, mid + 1, right, id, signed)
          ELSE IF id > AsUnsigned(buf[mid].id) /\ id <= AsUnsigned(buf[right].id)
               THEN RotatedSearch(buf, mid + 1, right, id, signed)
               ELSE RotatedSearch(buf, left, mid - 1, id, signed)

\* Sender::__Receive and __HandlePacket, lines 183-200: a datagram of at
\* least CHUNKHEADER_SIZE bytes arrives; buffering_mutex_ is taken and the
\* slot is searched (the ids are read without the slots' locks)
HandlePacketSearch ==
  \E d \in naks, signed \in BOOLEAN :
    /\ hp.pc = "idle"
    /\ hp.handled < run.naks
    /\ LET header == ReadHeader(d.hdr)
           found == RotatedSearch(buffer_, 0, BufferSize - 1, header.id, signed)
       IN hp' = IF found = -1 THEN [hp EXCEPT !.handled = @ + 1]
                ELSE [pc |-> "found", slot |-> found, header |-> header,
                      handled |-> hp.handled + 1]
    /\ UNCHANGED <<buffer_, buffer_index_, id_, app, sends, netVars, codecVars, poolVars, envVars, ohcVars, fragVars, recvVars>>

\* a plausible slip: the reference for the retransmission is not taken
RefIncrementMissing(slot) == slot

\* __HandlePacket, lines 201-202: frame->ref_count++
RefIncrement(slot) == [slot EXCEPT !.ref_count = @ + 1]

\* __HandlePacket, lines 201-202, under the slot's ref_count_lock
HandlePacketRef ==
  /\ hp.pc = "found"
  /\ buffer_' = [buffer_ EXCEPT ![hp.slot] = RefIncrement(@)]
  /\ hp' = [hp EXCEPT !.pc = "resend"]
  /\ UNCHANGED <<buffer_index_, id_, app, sends, netVars, codecVars, poolVars, envVars, ohcVars, fragVars, recvVars>>

\* __HandlePacket, lines 228-290: total_size and chunk_size are taken from
\* headers[chunk_index], transmission_type is set to 1; the datagram is the
\* new header followed by the chunk_size payload bytes of chunks[chunk_index]
ResendPacket(slot, request) ==
  LET stored == slot.headers[request.chunk_index]
      header == [request EXCEPT !.total_size = stored.total_size,
                                !.chunk_size = stored.chunk_size,
                                !.transmission_type = 1]
  IN [hdr |-> WireHeader(header),
      payload |-> SubSeq(slot.chunks[header.chunk_index].payload, 1,
                         Min(header.chunk_size, PAYLOAD))]

\* __HandlePacket, lines 228-297: rehydrate the header from headers[], mark it
\* RESEND, overwrite the chunk's header, send the chunk, ref_count--
HandlePacketResend ==
  /\ hp.pc = "resend"
  /\ hp.header.chunk_index \in DOMAIN buffer_[hp.slot].headers
  /\ LET packet == ResendPacket(buffer_[hp.slot], hp.header)
     IN /\ buffer_' = [buffer_ EXCEPT ![hp.slot].chunks[hp.header.chunk_index].hdr = packet.hdr,
                                      ![hp.slot].ref_count = @ - 1]
        /\ net' = net \cup {packet}
  /\ hp' = [HpIdle EXCEPT !.handled = hp.handled]
  /\ UNCHANGED <<buffer_index_, id_, app, sends, naks, codecVars, poolVars, envVars, ohcVars, fragVars, recvVars>>

SenderNext ==
  \/ SendEnter
  \/ SendPick
  \/ SendTry
  \/ SendChunk
  \/ SendReturn
  \/ AsyncSendComplete
  \/ HandlePacketSearch
  \/ HandlePacketRef
  \/ HandlePacketResend

\* a retransmission request as Receiver::__RequestResend sends it
NakDatagram(id, chunk_index, total_chunks) ==
  [hdr |-> WireHeader([id |-> id, total_size |-> 0, total_chunks |-> total_chunks,
                       chunk_index |-> chunk_index, chunk_size |-> 0,
                       transmission_type |-> 0]),
   payload |-> <<>>]

\* the requests a peer may send for the frames of this run, and for one id
\* that was never sent
PeerNaks ==
  {NakDatagram(id, c, MaxChunks) : id \in 0 .. MaxSends, c \in 0 .. MaxChunks - 1}

(***************************************************************************)
(* One call of Send on a Sender that was just constructed with one slot,   *)
(* for any mtu and size: no other thread runs, so the slot is free.  Sizes *)
(* are below 2^31, where the conversions to uint32_t and int keep the      *)
(* value.                                                                  *)
(***************************************************************************)

\* the default of the constructor argument mtu
DefaultMTU == 1500
\* constructor arguments mtu: the one of the runs below, the 576 bytes every
\* IPv4 link carries, and the default
FragMTUs == {MTU, 576, DefaultMTU}

\* full chunks of the frames passed to this Send
FragChunks == 3

\* sizes passed to Send: around every multiple of the payload up to
\* FragChunks, the first sizes that need more chunks than total_chunks can
\* count, and with the default mtu a frame of 3000 bytes
FragSizes(mtu) ==
  LET payload == PayloadOf(mtu)
  IN {k * payload + d : k \in 0 .. FragChunks, d \in {0, 1, payload - 1}}
       \cup {65536 * payload, 65536 * payload + 1}
       \cup (IF mtu = DefaultMTU THEN {3000} ELSE {})

FragOff == [pc |-> "off"]

FragInit ==
  \E mtu \in FragMTUs :
    \E size \in FragSizes(mtu) :
      frag = [pc |-> "call", MTU |-> mtu, PAYLOAD |-> PayloadOf(mtu), size |-> size,
              id_ |-> 0, slot |-> [id |-> -1, ref_count |-> 0],
              header |-> Unpack(ZeroHeader), i |-> 0, posted |-> <<>>]

\* Send, lines 63-67: the header of the frame; id_++
FragEnter ==
  /\ frag.pc = "call"
  /\ frag' = [frag EXCEPT
               !.pc = "claim",
               !.header = [id |-> frag.id_, total_size |-> frag.size,
                           total_chunks |-> TotalChunks(frag.size, frag.PAYLOAD),
                           chunk_index |-> 0, chunk_size |-> 0,
                           transmission_type |-> 0],
               !.id_ = @ + 1]
  /\ UNCHANGED <<codecVars, poolVars, senderVars, netVars, recvVars, envVars, ohcVars>>

\* Send, lines 71-86: the slot's ref_count is 0, the slot is claimed
FragClaim ==
  /\ frag.pc = "claim"
  /\ frag' = [frag EXCEPT !.pc = "loop", !.slot = SendTrySlot(@, frag.header)]
  /\ UNCHANGED <<codecVars, poolVars, senderVars, netVars, recvVars, envVars, ohcVars>>

\* Send, lines 95-123, one iteration: the header of chunk i as it is handed
\* to async_send_to
FragChunk ==
  /\ frag.pc = "loop"
  /\ frag.i < frag.header.total_chunks
  /\ frag' = [frag EXCEPT
               !.i = @ + 1,
               !.posted = Append(@, [frag.header EXCEPT
                            !.chunk_index = frag.i,
                            !.chunk_size = ChunkSize(frag.size, frag.i, frag.PAYLOAD)])]
  /\ UNCHANGED <<codecVars, poolVars, senderVars, netVars, recvVars, envVars, ohcVars>>

\* Send returns
FragReturn ==
  /\ frag.pc = "loop"
  /\ frag.i >= frag.header.total_chunks
  /\ frag' = [frag EXCEPT !.pc = "done"]
  /\ UNCHANGED <<codecVars, poolVars, senderVars, netVars, recvVars, envVars, ohcVars>>

FragNext == FragEnter \/ FragClaim \/ FragChunk \/ FragReturn

(***************************************************************************)
(* ReceivingFrame (unnamed/part_001) and Receiver (src/receiver.cpp).      *)
(* The Receiver runs on one reactor thread: every handler below is one     *)
(* atomic step.  frames is the heap of ReceivingFrame objects: an object is *)
(* named by its index, 0 is nullptr.  An object is "alive" from its        *)
(* construction to its destruction; a destroyed object stays in the heap   *)
(* as long as a handler that captured it is queued or armed.               *)
(***************************************************************************)

\* constructor argument buffer_size of the Receiver
RecvSlots == 2
\* ReceivingFrame objects in the heap at one time
MaxFrameObjs == 3
\* ReceivingFrame objects constructed in one run
MaxFrames == 3

\* pool_.data() of the three pools
DataPoolStart == 1000
RawPoolStart == 2000
ResendPoolStart == 3000

\* an asio::steady_timer: a wait is pending (armed), and handlers that the
\* reactor has already queued with a success code (queued)
NewTimer == [armed |-> FALSE, queued |-> 0]

\* a timer whose cancel leaves the pending wait in place
CancelNot(t) == t

\* steady_timer::cancel, and the cancel that ~steady_timer performs: the
\* pending wait completes with operation_aborted (its handler returns at
\* once); a handler already queued is not affected
Cancel(t) == [t EXCEPT !.armed = FALSE]

\* a timer that async_wait does not start
ArmNot(t) == t

\* expires_after followed by async_wait
ArmTimer(t) == [t EXCEPT !.armed = TRUE]

\* ReceivingFrame::ReceivingFrame.  ready_seen, drop_seen and
\* drop_pending_at_ready record the history of the object for the claims.
NewFrame(id, total_chunks, memory_pool) ==
  [ID |-> id,
   chunk_bitmap_ |-> [i \in 0 .. total_chunks - 1 |-> FALSE],
   data_ |-> memory_pool,
   BLOCK_SIZE |-> PAYLOAD,
   status_ |-> "ASSEMBLING",
   request_resend_ |-> FALSE,
   request_timeout_ |-> FALSE,
   init_chunk_timer_ |-> NewTimer,
   frame_drop_timer_ |-> NewTimer,
   resend_timer_ |-> NewTimer,
   state |-> "alive",
   ready_seen |-> FALSE,
   drop_seen |-> FALSE,
   drop_pending_at_ready |-> FALSE]

\* ~ReceivingFrame: the three timers are destroyed, which cancels their waits
Destroy(f) ==
  [f EXCEPT !.state = "destroyed",
            !.init_chunk_timer_ = Cancel(@),
            !.frame_drop_timer_ = Cancel(@),
            !.resend_timer_ = Cancel(@)]

\* an unused place of the heap
FreeObject == [NewFrame(0, 0, 0) EXCEPT !.state = "free"]

Pending(f) ==
  \/ f.init_chunk_timer_ # NewTimer
  \/ f.frame_drop_timer_ # NewTimer
  \/ f.resend_timer_ # NewTimer

\* a destroyed object that no handler refers to any more is gone
Collect(fr) ==
  [o \in DOMAIN fr |->
     IF fr[o].state = "destroyed" /\ ~Pending(fr[o]) THEN FreeObject ELSE fr[o]]

\* where make_shared puts the next object; 0 if the heap is full
NextObject(fr) ==
  IF \E o \in DOMAIN fr : fr[o].state = "free"
  THEN CHOOSE o \in DOMAIN fr :
         fr[o].state = "free" /\ \A o2 \in DOMAIN fr : o2 < o => fr[o2].state # "free"
  ELSE 0

\* the state of the Receiver as one record, for the handlers that call each
\* other
RS ==
  [q |-> assembling_queue_, fr |-> frames, dq |-> dropped_queue_,
   dp |-> data_pool_, rp |-> resend_pool_, mem |-> mem, counts |-> counts,
   sink |-> sink, closures |-> closures, naks |-> naks, hist |-> hist]

Commit(r) ==
  /\ assembling_queue_' = r.q
  /\ frames' = Collect(r.fr)
  /\ dropped_queue_' = r.dq
  /\ data_pool_' = r.dp
  /\ resend_pool_' = r.rp
  /\ mem' = r.mem
  /\ counts' = r.counts
  /\ sink' = r.sink
  /\ closures' = r.closures
  /\ naks' = r.naks
  /\ hist' = r.hist

\* OrderedHashContainer<Key, Value> as it is built: ordered_data_ is the list,
\* each element a node (the address a list iterator stands for) with its
\* key and value; key_to_iterator_ maps a key to a node.  fifo is not part
\* of the container: the (key, value) pairs pushed and not removed since,
\* oldest first; popped and erased record that the operation has removed
\* an entry.
OhcKeys == 0 .. 2
OhcValues == 1 .. 2
OhcNodes == 1 .. 3

OhcEmpty == [ordered_data_ |-> <<>>, key_to_iterator_ |-> <<>>, fifo |-> <<>>,
             popped |-> FALSE, erased |-> FALSE]

\* the keys of the list, and a node the list does not use
ListKeys(c) == {c.ordered_data_[k].key : k \in DOMAIN c.ordered_data_}
ListNodes(c) == {c.ordered_data_[k].node : k \in DOMAIN c.ordered_data_}
FreshNode(c) == CHOOSE n \in OhcNodes : n \notin ListNodes(c)

\* key_to_iterator_[key] = it (inserted or overwritten), key_to_iterator_.erase(key)
MapPut(m, key, node) == [k \in DOMAIN m \cup {key} |-> IF k = key THEN node ELSE m[k]]
MapErase(m, key) == [k \in DOMAIN m \ {key} |-> m[k]]

\* push_back / emplace_back, lines 117-147: the pair goes to the end of the
\* list and the key is mapped to the new last node
OhcPushBack(c, key, value) ==
  LET node == FreshNode(c)
  IN [c EXCEPT !.ordered_data_ = Append(@, [node |-> node, key |-> key, value |-> value]),
               !.key_to_iterator_ = MapPut(@, key, node)]

\* front(), lines 150-153
OhcFront(c) == [key |-> Head(c.ordered_data_).key, value |-> Head(c.ordered_data_).value]

\* find, lines 162-169: the value of the node the key is mapped to, or 0 for
\* nullptr; -1 if the node is no longer in the list (a dangling iterator)
OhcFind(c, key) ==
  IF key \notin DOMAIN c.key_to_iterator_ THEN 0
  ELSE LET at == {k \in DOMAIN c.ordered_data_ :
                    c.ordered_data_[k].node = c.key_to_iterator_[key]}
       IN IF at = {} THEN -1
          ELSE c.ordered_data_[CHOOSE k \in at : TRUE].value

\* a plausible slip: the first element goes, its key stays in the map
OhcPopFrontKeepsKey(c) ==
  IF c.ordered_data_ # <<>>
  THEN [c EXCEPT !.ordered_data_ = Tail(@)]
  ELSE c

\* pop_front, lines 172-178
OhcPopFront(c) ==
  IF c.ordered_data_ # <<>>
  THEN [c EXCEPT !.key_to_iterator_ = MapErase(@, Head(c.ordered_data_).key),
                 !.ordered_data_ = Tail(@)]
  ELSE c

\* erase, lines 181-188: the node the key is mapped to leaves the list, the
\* key leaves the map
OhcErase(c, key) ==
  IF key \in DOMAIN c.key_to_iterator_
  THEN [c EXCEPT !.ordered_data_ =
                   SelectSeq(@, LAMBDA e : e.node # c.key_to_iterator_[key]),
                 !.key_to_iterator_ = MapErase(@, key)]
  ELSE c

\* size(), lines 195-198
OhcSize(c) == Len(c.ordered_data_)

\* the keys pushed and not removed since
Remaining == {ohc.fifo[k].key : k \in DOMAIN ohc.fifo}

\* push_back with a key that is not in the container
PushBack ==
  \E key \in OhcKeys \ Remaining, value \in OhcValues :
    /\ ohc' = [OhcPushBack(ohc, key, value) EXCEPT
                 !.fifo = Append(@, [key |-> key, value |-> value])]
    /\ UNCHANGED <<codecVars, poolVars, senderVars, netVars, recvVars, envVars, fragVars>>

PopFront ==
  /\ ohc' = [OhcPopFront(ohc) EXCEPT
               !.fifo = IF @ = <<>> THEN @ ELSE Tail(@),
               !.popped = @ \/ ohc.fifo # <<>>]
  /\ UNCHANGED <<codecVars, poolVars, senderVars, netVars, recvVars, envVars, fragVars>>

Erase ==
  \E key \in OhcKeys :
    /\ ohc' = [OhcErase(ohc, key) EXCEPT
                 !.fifo = SelectSeq(@, LAMBDA e : e.key # key),
                 !.erased = @ \/ key \in Remaining]
    /\ UNCHANGED <<codecVars, poolVars, senderVars, netVars, recvVars, envVars, fragVars>>

OhcNext == PushBack \/ PopFront \/ Erase

\* OrderedHashContainer::find: the frame stored under key, or 0
QFind(q, key) ==
  IF \E k \in 1 .. Len(q) : q[k].id = key
  THEN q[CHOOSE k \in 1 .. Len(q) : q[k].id = key].obj
  ELSE 0

\* OrderedHashContainer::erase
QErase(q, key) == SelectSeq(q, LAMBDA e : e.id # key)

\* assembling_queue_.erase(id): the entry goes, and with it the last
\* shared_ptr to the frame
EraseFrame(r, id) ==
  LET obj == QFind(r.q, id)
  IN IF obj = 0 THEN r
     ELSE [r EXCEPT !.q = QErase(@, id), !.fr[obj] = Destroy(@)]


\* the size bytes of the data pool's arena that start at address data
ArenaBytes(m, data, size) ==
  [p \in 1 .. size |-> m[data - DataPoolStart + p]]

\* memcpy(dest, src, n) into the data pool's arena
ArenaCopy(m, dest, src, n) ==
  [a \in 1 .. Len(m) |->
     IF a - (dest - DataPoolStart) \in 1 .. n
     THEN src[a - (dest - DataPoolStart)]
     ELSE m[a]]

\* Receiver::__FrameGrabbed with a sink installed: count, copy the bytes into
\* a vector, hand vector and release closure to the user.  after_drop records
\* whether a frame of this id had been dropped before.
FrameGrabbed(r, id, data, size) ==
  IF data = 0 \/ size <= 0 THEN r
  ELSE [r EXCEPT !.counts.assembled_count_ = @ + 1,
                 !.sink = Append(@, [id |-> id,
                                     buffer |-> ArenaBytes(r.mem, data, size),
                                     after_drop |-> id \in r.hist.dropped]),
                 !.closures = Append(@, [id |-> id, data |-> data])]

\* Receiver::__RequestResend: one request header through the resend pool
RequestResend(r, header) ==
  LET data == AcquirePtr(r.rp)
  IN [r EXCEPT !.rp = Release(AcquirePool(@), data),
               !.naks = @ \cup {[hdr |-> WireHeader(header), payload |-> <<>>]}]

\* a round that requests every chunk, added or not
RECURSIVE RoundRequestsAll(_, _)
RoundRequestsAll(f, i) ==
  IF i \notin DOMAIN f.chunk_bitmap_ THEN <<>>
  ELSE <<[id |-> f.ID, total_size |-> 0,
          total_chunks |-> Cardinality(DOMAIN f.chunk_bitmap_),
          chunk_index |-> i, chunk_size |-> 0,
          transmission_type |-> 0]>> \o RoundRequestsAll(f, i + 1)

\* ReceivingFrame::__RequestResend, lines 142-150, the loop from index i:
\* the req_header of every call of the resend-request callback, in the
\* order of the calls
RECURSIVE RoundRequests(_, _)
RoundRequests(f, i) ==
  IF i \notin DOMAIN f.chunk_bitmap_ THEN <<>>
  ELSE IF f.chunk_bitmap_[i] THEN RoundRequests(f, i + 1)
  ELSE <<[id |-> f.ID, total_size |-> 0,
          total_chunks |-> Cardinality(DOMAIN f.chunk_bitmap_),
          chunk_index |-> i, chunk_size |-> 0,
          transmission_type |-> 0]>> \o RoundRequests(f, i + 1)

\* the resend-request callback called with each header of reqs in turn
RECURSIVE SendRequests(_, _)
SendRequests(r, reqs) ==
  IF reqs = <<>> THEN r
  ELSE SendRequests(RequestResend(r, Head(reqs)), Tail(reqs))

\* ReceivingFrame::__RequestResend, lines 142-150: a request for every chunk
\* whose bit is not set, in ascending index
RequestMissing(r, obj, i) == SendRequests(r, RoundRequests(r.fr[obj], i))

\* ReceivingFrame::__RequestResend
FrameRequestResend(r, obj) ==
  IF ~r.fr[obj].request_resend_ THEN r
  ELSE [RequestMissing(r, obj, 0) EXCEPT !.fr[obj].resend_timer_ = ArmTimer(@)]

\* An index outside chunk_bitmap_ is undefined behaviour.  ub names what the
\* build makes of it: "set" (the read past the end yields true), "assert"
\* (the read yields false and the assertion in AddChunk aborts the process)
\* or "write" (the read yields false and, assertions compiled out, AddChunk
\* writes out of range).  With an index in range the behaviour is "defined".
UBOutcomes == {"set", "assert", "write"}

\* a receiver whose bitmap lookup never reports a chunk as added
IsChunkAddedNever(f, chunk_index, ub) == FALSE

\* ReceivingFrame::IsChunkAdded
IsChunkAdded(f, chunk_index, ub) ==
  IF chunk_index \in DOMAIN f.chunk_bitmap_ THEN f.chunk_bitmap_[chunk_index]
  ELSE ub = "set"

\* a receiver that never sees the resend budget of a frame as exhausted
IsTimeoutNever(f) == FALSE

\* ReceivingFrame::IsTimeout
IsTimeout(f) == f.request_timeout_

\* ReceivingFrame::AddChunk, lines 61-66
AllAdded(bitmap) == \A i \in DOMAIN bitmap : bitmap[i]

\* ReceivingFrame::AddChunk.  With chunk_index out of range the assertion of
\* line 56 aborts, or the bit written lies outside the vector's elements and
\* memcpy writes where the index points (the bytes that fall into the data
\* pool's arena are kept, the write into chunk_headers_ is not followed).
AddChunk(r, obj, header, data, ub) ==
  LET f == r.fr[obj]
      inside == header.chunk_index \in DOMAIN f.chunk_bitmap_
      bitmap == IF inside THEN [f.chunk_bitmap_ EXCEPT ![header.chunk_index] = TRUE]
                ELSE f.chunk_bitmap_
      r1 == [r EXCEPT !.fr[obj].chunk_bitmap_ = bitmap,
                      !.mem = ArenaCopy(@, f.data_ + header.chunk_index * f.BLOCK_SIZE,
                                        data, header.chunk_size),
                      !.hist.fault = IF inside THEN @ ELSE "oob"]
  IN IF ~inside /\ ub = "assert" THEN [r EXCEPT !.hist.fault = "assert"]
     ELSE IF AllAdded(bitmap)
     THEN FrameGrabbed(
            [r1 EXCEPT !.fr[obj].status_ = "READY",
                       !.fr[obj].frame_drop_timer_ = Cancel(@),
                       !.fr[obj].request_resend_ = FALSE,
                       !.fr[obj].init_chunk_timer_ = Cancel(@),
                       !.fr[obj].ready_seen = TRUE,
                       !.fr[obj].drop_pending_at_ready =
                          f.frame_drop_timer_.queued > 0],
            f.ID, f.data_, header.total_size)
     ELSE IF header.transmission_type = 0 /\ ~f.request_resend_
     THEN [r1 EXCEPT !.fr[obj].init_chunk_timer_ = ArmTimer(@)]
     ELSE r1

\* __HandlePacket, lines 109-117: every dropped frame leaves the queue and
\* its block goes back to the data pool
RECURSIVE DrainDropped(_)
DrainDropped(r) ==
  IF r.dq = <<>> THEN r
  ELSE LET dropped == Head(r.dq)
       IN DrainDropped([EraseFrame(r, dropped.id) EXCEPT
                          !.dq = Tail(@),
                          !.dp = Release(@, dropped.data)])

\* Receiver::__HandlePacket
HandlePacket(r, d, ub) ==
  LET header == ReadHeader(d.hdr)
      frame_ptr == QFind(r.q, header.id)
  IN IF r.q = <<>> \/ (frame_ptr = 0 /\ header.transmission_type = 0)
     THEN LET r1 == DrainDropped(r)
              data_pool_starting == AcquirePtr(r1.dp)
              r2 == [r1 EXCEPT !.dp = AcquirePool(@)]
              obj == NextObject(Collect(r2.fr))
          IN IF data_pool_starting # 0
             THEN AddChunk([r2 EXCEPT
                              !.fr = [Collect(@) EXCEPT
                                        ![obj] = NewFrame(header.id, header.total_chunks,
                                                          data_pool_starting)],
                              !.q = Append(@, [id |-> header.id, obj |-> obj]),
                              !.hist.constructed = @ + 1,
                              !.hist.flushed = @ \ {data_pool_starting}],
                           obj, header, d.payload, ub)
             ELSE r2
     ELSE IF frame_ptr # 0 /\ ~IsTimeout(r.fr[frame_ptr])
          THEN IF ~IsChunkAdded(r.fr[frame_ptr], header.chunk_index, ub)
               THEN AddChunk(r, frame_ptr, header, d.payload, ub)
               ELSE [r EXCEPT !.hist.fault =
                       IF header.chunk_index \in DOMAIN r.fr[frame_ptr].chunk_bitmap_
                       THEN @ ELSE "oob"]
          ELSE r

\* what the build can make of datagram d in state r
Outcomes(r, d) ==
  LET header == ReadHeader(d.hdr)
      frame_ptr == QFind(r.q, header.id)
  IN IF r.q = <<>> \/ (frame_ptr = 0 /\ header.transmission_type = 0)
     THEN IF header.chunk_index < header.total_chunks THEN {"defined"}
          ELSE {"assert", "write"}
     ELSE IF /\ frame_ptr # 0
             /\ ~IsTimeout(r.fr[frame_ptr])
             /\ header.chunk_index \notin DOMAIN r.fr[frame_ptr].chunk_bitmap_
          THEN UBOutcomes
          ELSE {"defined"}


\* Receiver::Receiver, lines 15-18: the raw pool of a Receiver constructed
\* with max_data_size = max_size
RawPool(max_size) ==
  MemoryPool(RawPoolStart, MTU - 20 - 8,
             ((max_size + PAYLOAD - 1) \div PAYLOAD) * RecvSlots)

\* Receiver::Receiver and Start: the pools are built and __Receive has taken
\* a block of the raw pool for the first receive (recv_buf = 0: Acquire
\* returned nullptr and no receive is posted)
RecvInitOf(sent, max_size) ==
  /\ assembling_queue_ = <<>>
  /\ frames = [o \in 1 .. MaxFrameObjs |-> FreeObject]
  /\ dropped_queue_ = <<>>
  /\ data_pool_ = MemoryPool(DataPoolStart, max_size, RecvSlots)
  /\ raw_pool_ = AcquirePool(RawPool(max_size))
  /\ resend_pool_ = MemoryPool(ResendPoolStart, CHUNKHEADER_SIZE, RecvSlots)
  /\ mem = [a \in 1 .. max_size * RecvSlots |-> 0]
  /\ counts = [assembled_count_ |-> 0, dropped_count_ |-> 0]
  /\ recv_buf = AcquirePtr(RawPool(max_size))
  /\ sink = <<>>
  /\ closures = <<>>
  /\ hist = [sent |-> sent, posted |-> {}, constructed |-> 0, dropped |-> {},
             fault |-> "none", flushed |-> {}]
  /\ ctl = [running_ |-> TRUE, io |-> "run", pc |-> "idle", inflight |-> FALSE]

RecvInit(sent) == RecvInitOf(sent, max_data_size)

\* the process has not been aborted by a failed assertion and has not read
\* or written out of range: what the program does after that is not followed
Running == hist.fault = "none"

\* The reactor runs a handler: io_context_ has not been stopped, or it was
\* stopped while the reactor was inside this handler (io_context::stop does
\* not wait for it; run() returns when the handler has finished).
Dispatch == ctl.io = "run" \/ ctl.inflight

\* the handler has finished
HandlerDone(c) == [c EXCEPT !.inflight = FALSE]

\* a receive is posted, the reactor dispatches its completion handler, and
\* the run has room for the ReceivingFrame that datagram d may construct
Receivable(d) ==
  /\ Running
  /\ Dispatch
  /\ recv_buf # 0
  /\ LET header == ReadHeader(d.hdr)
     IN (assembling_queue_ = <<>> \/
         (QFind(assembling_queue_, header.id) = 0 /\ header.transmission_type = 0))
        => /\ hist.constructed < run.frames
           /\ NextObject(Collect(DrainDropped(RS).fr)) # 0

\* the completion handler of async_receive_from, lines 76-92, for a datagram
\* of at least CHUNKHEADER_SIZE bytes: __HandlePacket, the raw block goes
\* back, and if (running_) __Receive posts the next receive with a block of
\* the raw pool
Receive(d) ==
  /\ Receivable(d)
  /\ \E ub \in Outcomes(RS, d) : Commit(HandlePacket(RS, d, ub))
  /\ LET released == Release(raw_pool_, recv_buf)
     IN IF ctl.running_
        THEN /\ recv_buf' = AcquirePtr(released)
             /\ raw_pool_' = AcquirePool(released)
        ELSE /\ recv_buf' = 0
             /\ raw_pool_' = released
  /\ ctl' = HandlerDone(ctl)
  /\ UNCHANGED <<net, senderVars, codecVars, poolVars, envVars, ohcVars, fragVars>>

ReceiveDatagram == \E d \in net : Receive(d)

\* the completion handler of async_receive_from, lines 76-92, called with an
\* error or with fewer than CHUNKHEADER_SIZE bytes: the body of the if of
\* line 82, and with it raw_pool_.Release(recv_buf), is skipped, and
\* if (running_) __Receive acquires another block of the raw pool
ReceiveNothing ==
  /\ Running
  /\ Dispatch
  /\ recv_buf # 0
  /\ IF ctl.running_
     THEN /\ recv_buf' = AcquirePtr(raw_pool_)
          /\ raw_pool_' = AcquirePool(raw_pool_)
     ELSE /\ recv_buf' = 0
          /\ raw_pool_' = raw_pool_
  /\ ctl' = HandlerDone(ctl)
  /\ UNCHANGED <<assembling_queue_, frames, dropped_queue_, data_pool_,
                 resend_pool_, mem, counts, sink, closures, hist,
                 netVars, senderVars, codecVars, poolVars, envVars, ohcVars, fragVars>>

TimerNames == {"init_chunk_timer_", "frame_drop_timer_", "resend_timer_"}

\* the deadline of a pending wait passes: the reactor queues its handler
TimerExpires ==
  \E obj \in DOMAIN frames, t \in TimerNames :
    /\ Running
    /\ ctl.io = "run"
    /\ frames[obj][t].armed
    /\ frames' = [frames EXCEPT ![obj][t] = [armed |-> FALSE, queued |-> @.queued + 1]]
    /\ UNCHANGED <<assembling_queue_, dropped_queue_, data_pool_, raw_pool_,
                   resend_pool_, mem, counts, recv_buf, sink, closures, hist, ctl,
                   netVars, senderVars, codecVars, poolVars, envVars, ohcVars, fragVars>>

\* A queued handler captured `this`.  If the frame was destroyed meanwhile the
\* handler works on freed memory: it may do nothing, or act as if the object
\* were still there.
HandlerOutcomes(f) == IF f.state = "alive" THEN {TRUE} ELSE BOOLEAN

\* AddChunk, lines 91-121: the handler of init_chunk_timer_ with no error
InitChunkTimeout ==
  \E obj \in DOMAIN frames :
    /\ Running
    /\ Dispatch
    /\ frames[obj].init_chunk_timer_.queued > 0
    /\ ctl' = HandlerDone(ctl)
    /\ \E acts \in HandlerOutcomes(frames[obj]) :
         LET r0 == [RS EXCEPT !.fr[obj].init_chunk_timer_.queued = @ - 1]
             r1 == [r0 EXCEPT !.fr[obj].request_resend_ = TRUE,
                              !.fr[obj].frame_drop_timer_ = ArmTimer(@)]
         IN Commit(IF acts THEN FrameRequestResend(r1, obj) ELSE r0)
    /\ UNCHANGED <<net, raw_pool_, recv_buf, senderVars, codecVars, poolVars, envVars, ohcVars, fragVars>>

\* AddChunk, lines 110-117, and __HandlePacket, lines 134-138: the handler of
\* frame_drop_timer_ with no error, and the dropped callback it calls
FrameDropTimeout ==
  \E obj \in DOMAIN frames :
    /\ Running
    /\ Dispatch
    /\ frames[obj].frame_drop_timer_.queued > 0
    /\ ctl' = HandlerDone(ctl)
    /\ \E acts \in HandlerOutcomes(frames[obj]) :
         LET f == frames[obj]
             r0 == [RS EXCEPT !.fr[obj].frame_drop_timer_.queued = @ - 1]
             r1 == [r0 EXCEPT !.fr[obj].request_resend_ = FALSE,
                              !.fr[obj].request_timeout_ = TRUE,
                              !.fr[obj].status_ = "DROPPED",
                              !.fr[obj].drop_seen = TRUE,
                              !.dq = Append(@, [id |-> f.ID, data |-> f.data_]),
                              !.hist.dropped = @ \cup {f.ID},
                              !.counts.dropped_count_ = @ + 1]
         IN Commit(IF acts THEN r1 ELSE r0)
    /\ UNCHANGED <<net, raw_pool_, recv_buf, senderVars, codecVars, poolVars, envVars, ohcVars, fragVars>>

\* __RequestResend, lines 154-170: the handler of resend_timer_ with no error
ResendTimeout ==
  \E obj \in DOMAIN frames :
    /\ Running
    /\ Dispatch
    /\ frames[obj].resend_timer_.queued > 0
    /\ ctl' = HandlerDone(ctl)
    /\ \E acts \in HandlerOutcomes(frames[obj]) :
         LET r0 == [RS EXCEPT !.fr[obj].resend_timer_.queued = @ - 1]
         IN Commit(IF acts THEN FrameRequestResend(r0, obj) ELSE r0)
    /\ UNCHANGED <<net, raw_pool_, recv_buf, senderVars, codecVars, poolVars, envVars, ohcVars, fragVars>>

\* Receiver::__RequestResend, lines 168-198, when send_to fails: the block is
\* acquired and filled, send_to throws asio::system_error, which the handler
\* catch (const std::error_code&) of line 192 does not match, so
\* resend_pool_.Release of line 197 is not reached and the exception leaves
\* the timer handler and io_context::run
RequestResendThrows(r, header) ==
  [r EXCEPT !.rp = AcquirePool(@), !.hist.fault = "throw"]

\* the handler of init_chunk_timer_ or of resend_timer_ of a live frame runs
\* a round in which request k is the first whose send_to fails: the requests
\* before it are sent, the rest of the round and the arming of resend_timer_
\* are not reached
RequestSendThrows ==
  \E obj \in DOMAIN frames, t \in {"init_chunk_timer_", "resend_timer_"} :
    /\ Running
    /\ Dispatch
    /\ frames[obj].state = "alive"
    /\ frames[obj][t].queued > 0
    /\ t = "resend_timer_" => frames[obj].request_resend_
    /\ ctl' = HandlerDone(ctl)
    /\ LET r0 == [RS EXCEPT !.fr[obj][t].queued = @ - 1]
           r1 == IF t = "init_chunk_timer_"
                 THEN [r0 EXCEPT !.fr[obj].request_resend_ = TRUE,
                                 !.fr[obj].frame_drop_timer_ = ArmTimer(@)]
                 ELSE r0
           reqs == RoundRequests(r1.fr[obj], 0)
       IN \E k \in 1 .. Len(reqs) :
            Commit(RequestResendThrows(SendRequests(r1, SubSeq(reqs, 1, k - 1)),
                                       reqs[k]))
    /\ UNCHANGED <<net, raw_pool_, recv_buf, senderVars, codecVars, poolVars, envVars, ohcVars, fragVars>>

\* __FrameGrabbed, lines 210-214: the user calls a release closure
UserRelease ==
  \E k \in 1 .. Len(closures) :
    LET c == closures[k]
        r0 == [RS EXCEPT !.closures = SubSeq(@, 1, k - 1) \o SubSeq(@, k + 1, Len(@))]
    IN /\ Running
       /\ Commit([EraseFrame(r0, c.id) EXCEPT !.dp = Release(@, c.data)])
       /\ UNCHANGED <<net, raw_pool_, recv_buf, ctl, senderVars, codecVars, poolVars, envVars, ohcVars, fragVars>>

\* Receiver::Flush, lines 52-56, the whole loop: the front entry is popped,
\* which destroys its ReceivingFrame, and the frame's block is released.
\* flushed records the blocks released here until they are acquired again.
RECURSIVE FlushAll(_)
FlushAll(r) ==
  IF r.q = <<>> THEN r
  ELSE LET front == Head(r.q)
           data == r.fr[front.obj].data_
       IN FlushAll([r EXCEPT !.q = Tail(@),
                             !.fr[front.obj] = Destroy(@),
                             !.dp = Release(@, data),
                             !.hist.flushed = @ \cup {data}])

\* the user calls Flush
Flush ==
  /\ Running
  /\ assembling_queue_ # <<>>
  /\ Commit(FlushAll(RS))
  /\ UNCHANGED <<net, raw_pool_, recv_buf, ctl, senderVars, codecVars, poolVars, envVars, ohcVars, fragVars>>

\* Receiver::Stop, lines 43-44, on the user's thread: running_ = false and
\* io_context_->stop().  The reactor may be inside a handler at this moment.
StopReactor ==
  /\ Running
  /\ ctl.pc = "idle"
  /\ \E inflight \in (IF ctl.io = "run" THEN BOOLEAN ELSE {ctl.inflight}) :
       ctl' = [running_ |-> FALSE, io |-> "stopped", pc |-> "dropped_count_",
               inflight |-> inflight]
  /\ UNCHANGED <<assembling_queue_, frames, dropped_queue_, data_pool_, raw_pool_,
                 resend_pool_, mem, counts, recv_buf, sink, closures, hist,
                 netVars, senderVars, codecVars, poolVars, envVars, ohcVars, fragVars>>

\* Receiver::Stop, line 45: dropped_count_ = 0
StopResetDropped ==
  /\ Running
  /\ ctl.pc = "dropped_count_"
  /\ counts' = [counts EXCEPT !.dropped_count_ = 0]
  /\ ctl' = [ctl EXCEPT !.pc = "assembled_count_"]
  /\ UNCHANGED <<assembling_queue_, frames, dropped_queue_, data_pool_, raw_pool_,
                 resend_pool_, mem, recv_buf, sink, closures, hist,
                 netVars, senderVars, codecVars, poolVars, envVars, ohcVars, fragVars>>

\* Receiver::Stop, line 46: assembled_count_ = 0, and Stop returns
StopResetAssembled ==
  /\ Running
  /\ ctl.pc = "assembled_count_"
  /\ counts' = [counts EXCEPT !.assembled_count_ = 0]
  /\ ctl' = [ctl EXCEPT !.pc = "idle"]
  /\ UNCHANGED <<assembling_queue_, frames, dropped_queue_, data_pool_, raw_pool_,
                 resend_pool_, mem, recv_buf, sink, closures, hist,
                 netVars, senderVars, codecVars, poolVars, envVars, ohcVars, fragVars>>

RecvNext ==
  \/ ReceiveDatagram
  \/ TimerExpires
  \/ InitChunkTimeout
  \/ FrameDropTimeout
  \/ ResendTimeout
  \/ UserRelease

\* a chunk datagram as Send or the retransmission builds it for the frame
\* (id, size)
ChunkDatagram(id, size, i, type) ==
  LET chunk_size == Min(PAYLOAD, size - i * PAYLOAD)
  IN [hdr |-> WireHeader([id |-> id, total_size |-> size,
                          total_chunks |-> (size + PAYLOAD - 1) \div PAYLOAD,
                          chunk_index |-> i, chunk_size |-> chunk_size,
                          transmission_type |-> type]),
      payload |-> SubSeq(TestData(id, size), i * PAYLOAD + 1, i * PAYLOAD + chunk_size)]

\* frames on the wire in a run of the Receiver alone
RecvIds == 2

\* their sizes: frame 0 has the most chunks a frame can have, the others
\* have one chunk
RecvSizes == [id \in 0 .. RecvIds - 1 |-> IF id = 0 THEN max_data_size ELSE PAYLOAD]

\* every datagram that a correct Sender emits for the frames (id, size[id]),
\* first transmission and retransmission
PeerChunks(size) ==
  UNION {{ChunkDatagram(id, size[id], i, type) :
            i \in 0 .. (size[id] + PAYLOAD - 1) \div PAYLOAD - 1, type \in {0, 1}} :
         id \in DOMAIN size}

\* a datagram of a peer that is not a correct Sender: a header of frame id
\* whose chunk_index is total_chunks, one past the last chunk, with a full
\* payload of bytes that no frame contains
MalformedDatagram(id, size) ==
  LET total_chunks == (size + PAYLOAD - 1) \div PAYLOAD
  IN [hdr |-> WireHeader([id |-> id, total_size |-> size,
                          total_chunks |-> total_chunks,
                          chunk_index |-> total_chunks, chunk_size |-> PAYLOAD,
                          transmission_type |-> 0]),
      payload |-> [p \in 1 .. PAYLOAD |-> 200 + p]]

\* the frame on the wire in the run with such a peer
MalformedSizes == [id \in {0} |-> max_data_size]

\* a datagram of a peer that is not a correct Sender: the last chunk of a
\* frame id that claims one chunk more than a block of the data pool holds,
\* with chunk_index below total_chunks and a full payload of bytes that no
\* frame contains
ForgedDatagram(id) ==
  [hdr |-> WireHeader([id |-> id, total_size |-> (MaxChunks + 1) * PAYLOAD,
                       total_chunks |-> MaxChunks + 1,
                       chunk_index |-> MaxChunks, chunk_size |-> PAYLOAD,
                       transmission_type |-> 0]),
   payload |-> [p \in 1 .. PAYLOAD |-> 240 + p]]

(***************************************************************************)
(* Specifications                                                          *)
(***************************************************************************)

CodecOff == [phase |-> "off"]

\* no frame was passed to Send
NoneSent == [id \in {} |-> 0]

\* a run of the Sender, of the Receiver, or of neither
SenderRun == [sends |-> MaxSends, naks |-> MaxNaks, frames |-> 0]
RecvRun == [sends |-> 0, naks |-> 0, frames |-> MaxFrames]
NoRun == [sends |-> 0, naks |-> 0, frames |-> 0]

InitCodec ==
  /\ frag = FragOff /\ ohc = OhcEmpty
  /\ CodecInit /\ PoolInit /\ SenderInit(SenderSlots) /\ RecvInit(NoneSent)
  /\ net = {} /\ naks = {} /\ run = NoRun

SpecCodec == InitCodec /\ [][CodecNext]_vars

InitPool ==
  /\ frag = FragOff /\ ohc = OhcEmpty
  /\ PoolInit /\ cdc = CodecOff /\ SenderInit(SenderSlots) /\ RecvInit(NoneSent)
  /\ net = {} /\ naks = {} /\ run = NoRun

SpecPool == InitPool /\ [][PoolNext]_vars

\* the Sender with a peer that may request any chunk at any time
InitSender ==
  /\ frag = FragOff /\ ohc = OhcEmpty
  /\ SenderInit(SenderSlots) /\ RecvInit(NoneSent) /\ net = {} /\ naks = PeerNaks
  /\ cdc = CodecOff /\ PoolInit /\ run = SenderRun

SpecSender == InitSender /\ [][SenderNext]_vars

\* The application thread inside Send and the reactor thread are scheduled:
\* a step of Send that can be taken is taken, a completion or a handler that
\* the reactor can run is run.  Nothing obliges the application to call Send
\* or the peer to send a request.
SendStep == SendPick \/ SendTry \/ SendChunk \/ SendReturn
ReactorStep == AsyncSendComplete \/ HandlePacketRef \/ HandlePacketResend

SenderFair == WF_vars(SendStep) /\ WF_vars(ReactorStep)

\* the run in which every call of Send must return: more frames than slots
LiveSlots == 1
LiveSends == 2
LiveNaks == 1

InitSenderLive ==
  /\ frag = FragOff /\ ohc = OhcEmpty
  /\ SenderInit(LiveSlots) /\ RecvInit(NoneSent) /\ net = {} /\ naks = PeerNaks
  /\ cdc = CodecOff /\ PoolInit
  /\ run = [sends |-> LiveSends, naks |-> LiveNaks, frames |-> 0]

SpecSenderLive == InitSenderLive /\ [][SenderNext]_vars /\ SenderFair

\* the Sender with a ring of three slots and more frames than slots, so that
\* the order of the ids around the ring is more than a pair
RingSlots == 3
RingSends == 4
RingNaks == 1

InitRing ==
  /\ frag = FragOff /\ ohc = OhcEmpty
  /\ SenderInit(RingSlots) /\ RecvInit(NoneSent) /\ net = {} /\ naks = PeerNaks
  /\ cdc = CodecOff /\ PoolInit
  /\ run = [sends |-> RingSends, naks |-> RingNaks, frames |-> 0]

SpecRing == InitRing /\ [][SenderNext]_vars

\* the Receiver with a network that may lose, repeat and reorder the
\* datagrams of a correct Sender
InitRecv ==
  /\ frag = FragOff /\ ohc = OhcEmpty
  /\ RecvInit(RecvSizes)
  /\ net = PeerChunks(RecvSizes)
  /\ naks = {}
  /\ SenderInit(SenderSlots)
  /\ cdc = CodecOff
  /\ PoolInit
  /\ run = RecvRun

SpecRecv == InitRecv /\ [][RecvNext]_vars

\* the Receiver with a network that carries, besides the datagrams of one
\* frame, a datagram whose chunk_index is out of range
MalformedFrames == 2

InitMalformed ==
  /\ frag = FragOff /\ ohc = OhcEmpty
  /\ RecvInit(MalformedSizes)
  /\ net = PeerChunks(MalformedSizes) \cup {MalformedDatagram(0, MalformedSizes[0])}
  /\ naks = {}
  /\ SenderInit(SenderSlots)
  /\ cdc = CodecOff
  /\ PoolInit
  /\ run = [sends |-> 0, naks |-> 0, frames |-> MalformedFrames]

SpecMalformed == InitMalformed /\ [][RecvNext]_vars

\* the Receiver with a network that carries, besides the datagrams of frame
\* 0, a datagram of a frame 1 whose header claims more chunks than a block
\* of the data pool holds
ForgedFrames == 2

InitForged ==
  /\ frag = FragOff /\ ohc = OhcEmpty
  /\ RecvInit(MalformedSizes)
  /\ net = PeerChunks(MalformedSizes) \cup {ForgedDatagram(1)}
  /\ naks = {}
  /\ SenderInit(SenderSlots)
  /\ cdc = CodecOff
  /\ PoolInit
  /\ run = [sends |-> 0, naks |-> 0, frames |-> ForgedFrames]

SpecForged == InitForged /\ [][RecvNext]_vars

\* the Receiver of one frame of BurstChunks chunks: a burst of INIT chunks
\* that does not complete the frame at its second chunk
BurstChunks == 3
BurstFrames == 1

BurstSizes == [id \in {0} |-> BurstChunks * PAYLOAD - 1]

InitBurst ==
  /\ frag = FragOff /\ ohc = OhcEmpty
  /\ RecvInitOf(BurstSizes, BurstSizes[0])
  /\ net = PeerChunks(BurstSizes)
  /\ naks = {}
  /\ SenderInit(SenderSlots)
  /\ cdc = CodecOff
  /\ PoolInit
  /\ run = [sends |-> 0, naks |-> 0, frames |-> BurstFrames]

SpecBurst == InitBurst /\ [][RecvNext]_vars

\* Armed timers fire and queued handlers run: the wait of timer t of frame
\* object obj that is pending reaches its deadline, and the reactor, which
\* is inside io_context_->run(), runs the handler it queued.  Nothing obliges
\* the network to deliver a datagram or the user to release a frame.
TimerFires(obj, t) ==
  TimerExpires /\ frames'[obj][t].queued = frames[obj][t].queued + 1

HandlerRuns(obj, t) ==
  /\ InitChunkTimeout \/ FrameDropTimeout \/ ResendTimeout
  /\ frames[obj][t].queued > 0
  /\ frames'[obj][t].queued = frames[obj][t].queued - 1

\* the guard of the three handlers: HandlerRuns(obj, t) is enabled exactly
\* when it holds
CanRun(obj, t) == Running /\ Dispatch /\ frames[obj][t].queued > 0

\* weak fairness of each of the two steps; that of HandlerRuns is written
\* with its enabling condition, []<>~ENABLED \/ []<><<A>>_vars
TimersFair ==
  \A obj \in 1 .. MaxFrameObjs : \A t \in TimerNames :
    /\ WF_vars(TimerFires(obj, t))
    /\ []<>(~CanRun(obj, t)) \/ []<><<HandlerRuns(obj, t)>>_vars

\* the frame of BurstChunks chunks with timers that fire
SpecAging == InitBurst /\ [][RecvNext]_vars /\ TimersFair

\* the Receiver with a socket that may report errors and deliver datagrams
\* shorter than a header
IngressFrames == 1

IngressNext == RecvNext \/ ReceiveNothing

InitIngress ==
  /\ frag = FragOff /\ ohc = OhcEmpty
  /\ RecvInit(RecvSizes)
  /\ net = PeerChunks(RecvSizes)
  /\ naks = {}
  /\ SenderInit(SenderSlots)
  /\ cdc = CodecOff
  /\ PoolInit
  /\ run = [sends |-> 0, naks |-> 0, frames |-> IngressFrames]

SpecIngress == InitIngress /\ [][IngressNext]_vars

\* the Receiver with a socket whose send_to may fail
NakFrames == 1

NakNext == RecvNext \/ RequestSendThrows

InitNak ==
  /\ frag = FragOff /\ ohc = OhcEmpty
  /\ RecvInitOf(BurstSizes, BurstSizes[0])
  /\ net = PeerChunks(BurstSizes)
  /\ naks = {}
  /\ SenderInit(SenderSlots)
  /\ cdc = CodecOff
  /\ PoolInit
  /\ run = [sends |-> 0, naks |-> 0, frames |-> NakFrames]

SpecNak == InitNak /\ [][NakNext]_vars

\* the Receiver with a user who calls Stop and Flush at any time
ControlFrames == 2

ControlNext ==
  \/ RecvNext
  \/ Flush
  \/ StopReactor
  \/ StopResetDropped
  \/ StopResetAssembled

InitControl ==
  /\ frag = FragOff /\ ohc = OhcEmpty
  /\ RecvInit(RecvSizes)
  /\ net = PeerChunks(RecvSizes)
  /\ naks = {}
  /\ SenderInit(SenderSlots)
  /\ cdc = CodecOff
  /\ PoolInit
  /\ run = [sends |-> 0, naks |-> 0, frames |-> ControlFrames]

SpecControl == InitControl /\ [][ControlNext]_vars

\* Sender and Receiver connected by the network: what a run of the two may
\* do at most
LinkSlots == 1
LinkSends == 2
LinkNaks == 1
LinkFrames == 1

InitLink ==
  /\ frag = FragOff /\ ohc = OhcEmpty
  /\ SenderInit(LinkSlots)
  /\ RecvInit(NoneSent)
  /\ net = {}
  /\ naks = {}
  /\ run = [sends |-> LinkSends, naks |-> LinkNaks, frames |-> LinkFrames]
  /\ cdc = CodecOff
  /\ PoolInit

LinkNext == SenderNext \/ RecvNext

SpecLink == InitLink /\ [][LinkNext]_vars

\* Sender and Receiver connected by the network, both constructed with the
\* same max_data_size: the default 0, or the size of the largest frame
ConfigMaxSizes == {0, max_data_size}

InitConfig ==
  /\ frag = FragOff /\ ohc = OhcEmpty
  /\ \E max_size \in ConfigMaxSizes :
       /\ SenderInitOf(LinkSlots, max_size)
       /\ RecvInitOf(NoneSent, max_size)
  /\ net = {}
  /\ naks = {}
  /\ run = [sends |-> LinkSends, naks |-> LinkNaks, frames |-> LinkFrames]
  /\ cdc = CodecOff
  /\ PoolInit

SpecConfig == InitConfig /\ [][LinkNext]_vars

\* one call of Send, alone
InitFrag ==
  /\ FragInit /\ ohc = OhcEmpty
  /\ SenderInit(SenderSlots) /\ RecvInit(NoneSent) /\ net = {} /\ naks = {}
  /\ cdc = CodecOff /\ PoolInit /\ run = NoRun

SpecFrag == InitFrag /\ [][FragNext]_vars

\* an OrderedHashContainer on its own, used as the Receiver uses it: keys are
\* pushed when they are not in the container
InitOhc ==
  /\ frag = FragOff /\ ohc = OhcEmpty
  /\ PoolInit /\ cdc = CodecOff /\ SenderInit(SenderSlots) /\ RecvInit(NoneSent)
  /\ net = {} /\ naks = {} /\ run = NoRun

SpecOhc == InitOhc /\ [][OhcNext]_vars

(***************************************************************************)
(* Claims                                                                  *)
(***************************************************************************)

\* ---- Sender and Receiver ----

\* C1: whenever the Receiver hands a frame to the user's sink, the bytes
\* delivered are the bytes passed to Send for that frame id and their number
\* is the size passed to Send, whatever is lost, reordered, repeated or
\* retransmitted and whichever slots the Sender reuses.
C1_DeliveredBytesAreSentBytes ==
  \A k \in 1 .. Len(sink) :
    /\ sink[k].id \in DOMAIN hist.sent
    /\ sink[k].buffer = TestData(sink[k].id, hist.sent[sink[k].id])

\* the RESEND datagrams the Sender put on the wire for frame id
Retransmitted(id) ==
  {d \in net : ReadHeader(d.hdr).transmission_type = 1 /\ ReadHeader(d.hdr).id = id}

\* C15: when a chunk of a frame is lost, the Receiver's request names the id,
\* the index of a chunk of that frame and the frame's total_chunks, the
\* Sender answers with that chunk marked transmission_type = 1, and a frame
\* for which a retransmission was sent is delivered once and with the bytes
\* passed to Send.
C15_LostChunkRecovered ==
  /\ \A n \in naks :
       LET header == ReadHeader(n.hdr)
       IN /\ header.id \in DOMAIN hist.sent
          /\ header.total_chunks = TotalChunks(hist.sent[header.id], PAYLOAD)
          /\ header.chunk_index < header.total_chunks
  /\ \A d \in net :
       ReadHeader(d.hdr).transmission_type = 1
         => \E n \in naks :
              /\ ReadHeader(n.hdr).id = ReadHeader(d.hdr).id
              /\ ReadHeader(n.hdr).chunk_index = ReadHeader(d.hdr).chunk_index
  /\ \A k \in 1 .. Len(sink) :
       Retransmitted(sink[k].id) # {}
         => /\ sink[k].id \in DOMAIN hist.sent
            /\ sink[k].buffer = TestData(sink[k].id, hist.sent[sink[k].id])
            /\ Cardinality({j \in 1 .. Len(sink) : sink[j].id = sink[k].id}) = 1

\* the endpoints were constructed with max_data_size = 0
Unbounded == data_pool_.BLOCK_SIZE = 0 /\ BufferSize = 0

\* C21: a Sender and a Receiver constructed with max_data_size = 0 are
\* usable: a call of Send gets through its slot acquisition to sending the
\* chunks, and the Receiver has a receive posted.
C21_UnboundedUsable ==
  Unbounded => (app.pc # "fault" /\ recv_buf # 0)

\* ---- Sender ----

\* no slot of buffer_ has the id, as the comparison of line 197 sees it
NoSlotMatches(id) == \A i \in DOMAIN buffer_ : AsUnsigned(buffer_[i].id) # id

\* the request d can be handled now
Requesting == {d \in naks : hp.pc = "idle" /\ hp.handled < run.naks}

\* C33: __HandlePacket for a header whose id matches no slot finds no frame,
\* sends nothing and leaves every slot's ref_count, id and chunk bytes as
\* they are.
C33_UnknownIdIgnored ==
  /\ [](\A d \in Requesting : \A signed \in BOOLEAN :
         NoSlotMatches(ReadHeader(d.hdr).id)
           => RotatedSearch(buffer_, 0, BufferSize - 1, ReadHeader(d.hdr).id, signed) = -1)
  /\ [][(hp.pc = "idle" /\ hp'.pc = "idle" /\ hp'.handled = hp.handled + 1)
          => (buffer_' = buffer_ /\ net' = net /\ sends' = sends)]_vars

\* C33 witness: a request for an id that no slot holds is about to be
\* handled while a slot holds a frame whose sends have not all completed.
C33_Witness ==
  \E d \in Requesting :
    /\ NoSlotMatches(ReadHeader(d.hdr).id)
    /\ \E i \in DOMAIN buffer_ : buffer_[i].id >= 0 /\ buffer_[i].ref_count > 0

\* the chunk of the request in hand was posted by Send
ChunkWasSent(request) ==
  \E d \in hist.posted :
    /\ ReadHeader(d.hdr).id = request.id
    /\ ReadHeader(d.hdr).chunk_index = request.chunk_index

\* the datagram repeats the chunk that Send posted for the request: RESEND,
\* the sizes and the payload bytes of the original
RepeatsOriginal(packet, request) ==
  \E d \in hist.posted :
    /\ ReadHeader(d.hdr).id = request.id
    /\ ReadHeader(d.hdr).chunk_index = request.chunk_index
    /\ ReadHeader(packet.hdr).id = request.id
    /\ ReadHeader(packet.hdr).chunk_index = request.chunk_index
    /\ ReadHeader(packet.hdr).transmission_type = 1
    /\ ReadHeader(packet.hdr).total_size = ReadHeader(d.hdr).total_size
    /\ ReadHeader(packet.hdr).chunk_size = ReadHeader(d.hdr).chunk_size
    /\ packet.payload = d.payload

\* the retransmission in hand sends the original chunk
ResendsOriginal ==
  (hp.pc = "resend" /\ ChunkWasSent(hp.header))
    => RepeatsOriginal(ResendPacket(buffer_[hp.slot], hp.header), hp.header)

\* __HandlePacket from the match to its return: one datagram, the one of
\* ResendPacket, and the reference taken is given back
ResendStep ==
  /\ (hp.pc = "found" /\ hp'.pc = "resend")
       => /\ buffer_'[hp.slot].ref_count = buffer_[hp.slot].ref_count + 1
          /\ net' = net
  /\ (hp.pc = "resend" /\ hp'.pc = "idle")
       => /\ buffer_'[hp.slot].ref_count = buffer_[hp.slot].ref_count - 1
          /\ net' = net \cup {ResendPacket(buffer_[hp.slot], hp.header)}
          /\ sends' = sends

\* C34: for a request whose id matches a slot and whose chunk Send has
\* posted, __HandlePacket sends one datagram for the requested chunk_index,
\* with transmission_type 1, the total_size and chunk_size of the original
\* chunk and the original payload bytes, and leaves the slot's ref_count as
\* it was before the call (one increment, one decrement).
C34_ResendRepeatsOriginalChunk ==
  []ResendsOriginal /\ [][ResendStep]_vars

\* going round the ring from slot r, the ids never decrease
AscendingFrom(r, signed) ==
  \A k \in 0 .. BufferSize - 2 :
    AsDeclared(buffer_[(r + k) % BufferSize].id, signed)
      <= AsDeclared(buffer_[(r + k + 1) % BufferSize].id, signed)

\* C35: in every reachable state of the Sender the ids of the ring's slots
\* are in ascending order from a single rotation point, empty slots (id -1,
\* read as signed or as unsigned) included, whichever slots Send skipped
\* because they were busy.
C35_RingAscendingFromRotationPoint ==
  \E signed \in BOOLEAN : \E r \in DOMAIN buffer_ : AscendingFrom(r, signed)

\* C36: whenever a slot of the ring holds the id of a request, the rotated
\* binary search of __HandlePacket ends on that slot, as a scan over all
\* slots would.
C36_SearchFindsEverySlot ==
  \A d \in Requesting : \A signed \in BOOLEAN : \A i \in DOMAIN buffer_ :
    buffer_[i].id = ReadHeader(d.hdr).id
      => RotatedSearch(buffer_, 0, BufferSize - 1, ReadHeader(d.hdr).id, signed) = i

\* the payload bytes Send posted for chunk chunk_index of frame id
OriginalPayloads(id, chunk_index) ==
  {d.payload : d \in {o \in hist.posted : /\ ReadHeader(o.hdr).id = id
                                          /\ ReadHeader(o.hdr).chunk_index = chunk_index}}

\* C37: from the moment __HandlePacket has matched a slot to the end of the
\* retransmission the slot still holds the id that was matched (Send has not
\* reclaimed it), and the datagram about to be retransmitted carries the
\* payload bytes Send posted for that id and chunk.
C37_SlotHeldDuringResend ==
  /\ hp.pc \in {"found", "resend"} => buffer_[hp.slot].id = hp.header.id
  /\ (hp.pc = "resend" /\ ChunkWasSent(hp.header))
       => ResendPacket(buffer_[hp.slot], hp.header).payload
            \in OriginalPayloads(hp.header.id, hp.header.chunk_index)

\* C38: after any sequence of push_back with keys not in the container,
\* pop_front and erase, the container is the FIFO sequence of the entries
\* pushed and not removed: front() is the oldest of them, find(k) gives the
\* value pushed under k if k is among them and nullptr otherwise, size() is
\* their number, and key_to_iterator_ and ordered_data_ hold the same keys.
C38_ContainerIsFifoOfDistinctKeys ==
  /\ ohc.fifo # <<>> => OhcFront(ohc) = Head(ohc.fifo)
  /\ \A key \in OhcKeys :
       OhcFind(ohc, key) = IF key \in Remaining
                           THEN ohc.fifo[CHOOSE k \in DOMAIN ohc.fifo : ohc.fifo[k].key = key].value
                           ELSE 0
  /\ OhcSize(ohc) = Len(ohc.fifo)
  /\ DOMAIN ohc.key_to_iterator_ = ListKeys(ohc)
  /\ Cardinality(ListKeys(ohc)) = Len(ohc.ordered_data_)

\* C38 witness: entries were removed by pop_front and by erase, two entries
\* remain, and the oldest of them is not the one with the smallest key.
C38_Witness ==
  /\ ohc.popped /\ ohc.erased
  /\ Len(ohc.fifo) >= 2
  /\ OhcFront(ohc).key > ohc.fifo[Len(ohc.fifo)].key

\* object obj is a ReceivingFrame that is still being assembled
Assembling(obj) == frames[obj].state = "alive" /\ frames[obj].status_ = "ASSEMBLING"

\* C39: with timers that fire, every ReceivingFrame that is created
\* eventually becomes READY or DROPPED (or is destroyed): none stays
\* ASSEMBLING forever, holding its data-pool block.
C39_FrameEventuallyTerminal ==
  \A obj \in 1 .. MaxFrameObjs : Assembling(obj) ~> ~Assembling(obj)

\* C7: in every reachable state of the Sender, under any interleaving of
\* Send, completions of async sends and __HandlePacket, the ref_count of
\* every slot is at least 0.
C7_RefCountNonNegative ==
  \A i \in DOMAIN buffer_ : buffer_[i].ref_count >= 0

\* C7 witness: __HandlePacket matched a slot, Send reclaimed that slot for a
\* later frame, and __HandlePacket took its reference on top of those of the
\* new frame while async sends are outstanding.
C7_Witness ==
  /\ hp.pc = "resend"
  /\ buffer_[hp.slot].id # hp.header.id
  /\ app.pc = "fill"
  /\ app.idx = hp.slot
  /\ sends # <<>>
  /\ buffer_[hp.slot].ref_count > 1

\* Send has returned for frame id
Returned(id) == id < id_ /\ ~(app.pc # "idle" /\ app.header.id = id)

\* C13: Send claims a slot only when its ref_count is 0, so a slot with
\* outstanding sends keeps its frame id and its chunk bytes until they have
\* completed, and every frame passed to Send, also when there are more frames
\* than slots, has had each of its chunks handed to the socket when Send
\* returns.
C13_BusySlotsNotClaimed ==
  /\ \A k \in 1 .. Len(sends) :
       LET op == sends[k]
       IN /\ buffer_[op.slot].ref_count > 0
          /\ buffer_[op.slot].id = ReadHeader(op.sent.hdr).id
          /\ SubSeq(buffer_[op.slot].chunks[op.chunk].payload, 1, op.size) = op.sent.payload
  /\ \A id \in DOMAIN hist.sent :
       Returned(id) =>
         \A i \in 0 .. CeilDiv(hist.sent[id], PAYLOAD) - 1 :
           ChunkDatagram(id, hist.sent[id], i, 0) \in hist.posted

\* C13 witness: a frame beyond the number of slots found a slot busy, claimed
\* a slot later and has handed all its chunks to the socket while sends of an
\* earlier frame are still outstanding in the other slot.
C13_Witness ==
  /\ app.pc = "fill"
  /\ app.refused
  /\ app.header.id >= BufferSize
  /\ app.i = app.header.total_chunks
  /\ \A i \in 0 .. app.header.total_chunks - 1 :
       ChunkDatagram(app.header.id, app.header.total_size, i, 0) \in hist.posted
  /\ \E k \in 1 .. Len(sends) : sends[k].slot # app.idx

PostedSizes == [k \in 1 .. Len(frag.posted) |-> frag.posted[k].chunk_size]

RECURSIVE SumSeq(_)
SumSeq(q) == IF q = <<>> THEN 0 ELSE q[Len(q)] + SumSeq(SubSeq(q, 1, Len(q) - 1))

\* C11: for every size passed to Send, the chunks produced number
\* ceil(total_size / PAYLOAD), carry total_chunks = ceil(total_size / PAYLOAD),
\* have chunk_size = PAYLOAD except possibly the last, and their chunk sizes
\* sum to total_size.
C11_ChunkingExact ==
  frag.pc = "done" =>
    /\ Len(frag.posted) = CeilDiv(frag.size, frag.PAYLOAD)
    /\ \A k \in 1 .. Len(frag.posted) :
         /\ frag.posted[k].total_chunks = CeilDiv(frag.size, frag.PAYLOAD)
         /\ frag.posted[k].total_size = frag.size
         /\ k < Len(frag.posted) => frag.posted[k].chunk_size = frag.PAYLOAD
    /\ SumSeq(PostedSizes) = frag.size

\* C12: the encoded chunk header is 18 bytes, so with MTU = 1500 the PAYLOAD
\* is 1454 and a Send of 3000 bytes produces 3 chunks of 1454, 1454 and 92
\* bytes.
C12_HeaderIs18Bytes ==
  (frag.pc = "done" /\ frag.MTU = DefaultMTU /\ frag.size = 3000) =>
    /\ CHUNKHEADER_SIZE = 18
    /\ frag.PAYLOAD = 1454
    /\ PostedSizes = <<1454, 1454, 92>>

\* Send left no trace in the Sender: no id was consumed, no slot was claimed
\* and nothing was handed to the socket
FragRejected ==
  /\ frag.id_ = 0
  /\ frag.slot = [id |-> -1, ref_count |-> 0]
  /\ frag.posted = <<>>

\* C20: Send with size = 0 is either rejected or produces exactly one chunk,
\* whose chunk_size is 0.
C20_ZeroSizeRejectedOrOneChunk ==
  (frag.pc = "done" /\ frag.size = 0) =>
    \/ FragRejected
    \/ PostedSizes = <<0>>


\* ---- Receiver ----

\* the ReceivingFrame objects that exist
Alive == {o \in DOMAIN frames : frames[o].state = "alive"}

\* how often the user's sink was called for id
Deliveries(id) == Cardinality({k \in 1 .. Len(sink) : sink[k].id = id})

\* C2: for any frame id the assembled-frame callback, and with it the user's
\* sink, is invoked at most once, whatever chunks arrive (duplicate, late,
\* retransmitted) and whatever timers fire.
C2_DeliveredAtMostOnce ==
  \A id \in 0 .. RecvIds - 1 : Deliveries(id) <= 1

\* C3: a ReceivingFrame that became READY never becomes DROPPED and its
\* dropped callback is never invoked, and one that became DROPPED never
\* becomes READY, also when a handler was already queued when its timer was
\* cancelled.
C3_TerminalStatesAbsorbing ==
  \A o \in Alive :
    /\ ~(frames[o].ready_seen /\ frames[o].drop_seen)
    /\ frames[o].ready_seen => frames[o].status_ = "READY"
    /\ frames[o].drop_seen => frames[o].status_ = "DROPPED"

\* C16: dropped_count_ changes only by one at a time, and each increment is
\* the dropped callback of a ReceivingFrame that was not dropped before and
\* was not delivered.
C16_DropCountedOncePerDroppedFrame ==
  [][counts'.dropped_count_ # counts.dropped_count_
       => /\ counts'.dropped_count_ = counts.dropped_count_ + 1
          /\ \E obj \in DOMAIN frames :
               /\ ~frames[obj].drop_seen
               /\ ~frames[obj].ready_seen
               /\ frames'[obj].drop_seen]_vars

\* the index of the data-pool block that starts at address data
BlockIndex(data) == (data - DataPoolStart) \div data_pool_.BLOCK_SIZE

\* C22: a call of Flush leaves assembling_queue_ empty, and every block that
\* Flush released is on the free stack of the data pool exactly once, from
\* the call until the block is acquired again: it is not held, and no release
\* closure or eviction of a dropped frame releases it a second time.
C22_FlushReleasesOnce ==
  [][/\ (hist'.flushed \ hist.flushed # {}) => assembling_queue_' = <<>>
     /\ \A data \in hist'.flushed :
          FreeCount(data_pool_', BlockIndex(data)) = 1]_vars

\* C23: assembled_count_ and dropped_count_ decrease only in the two
\* assignments of Stop, and when Stop returns both are 0.
C23_CountersMonotonicResetByStop ==
  [][/\ (\/ counts'.assembled_count_ < counts.assembled_count_
         \/ counts'.dropped_count_ < counts.dropped_count_)
          => ctl.pc \in {"dropped_count_", "assembled_count_"}
     /\ (ctl.pc = "assembled_count_" /\ ctl'.pc = "idle")
          => (counts'.assembled_count_ = 0 /\ counts'.dropped_count_ = 0)]_vars

\* C4: after a frame id was dropped the delivery callback is never invoked
\* for that id, also after the dropped entry left assembling_queue_ and more
\* chunks of that id arrive.
C4_NoDeliveryAfterDrop ==
  \A k \in 1 .. Len(sink) : ~sink[k].after_drop

\* C5: if every chunk of a frame was accepted before the frame-drop timeout
\* of that frame elapsed, dropped_count_ is not incremented for that frame.
C5_NoDropWhenCompleteInTime ==
  \A o \in Alive :
    (frames[o].ready_seen /\ ~frames[o].drop_pending_at_ready) => ~frames[o].drop_seen

\* no timer of any object is armed or has a handler queued, and the user has
\* called every release closure
Idle ==
  /\ \A o \in DOMAIN frames : ~Pending(frames[o])
  /\ closures = <<>>

\* blocks of a pool that are not on its free stack
Occupancy(pool) ==
  Cardinality({idx \in 0 .. pool.BUFFER_SIZE - 1 : FreeCount(pool, idx) = 0})

\* C6: every block acquired for a frame is released once the frame has
\* completed or was dropped: when the engine is idle (no timer is pending,
\* the user holds no frame) the occupancy of the data pool is zero.
C6_IdlePoolsEmpty ==
  (Idle /\ \A o \in Alive : frames[o].status_ # "ASSEMBLING")
    => Occupancy(data_pool_) = 0

\* C31: every raw-pool block acquired for a receive is released when that
\* receive completes, with a datagram, with an error or with a datagram
\* shorter than the header: at most one block of the raw pool is held at
\* any time, and while running_ is true a receive is posted.
C31_RawBlockReleasedOnEveryPath ==
  /\ Occupancy(raw_pool_) <= 1
  /\ ctl.running_ => recv_buf # 0

\* C32: __RequestResend releases the block of the resend pool that it
\* acquired before it returns, whatever the outcome of the send: between
\* calls no block of the resend pool is held, so Acquire never returns null.
C32_ResendBlockReleased ==
  Occupancy(resend_pool_) = 0

\* the datagrams on the wire that the receiver can receive now
Arriving == {d \in net : Receivable(d)}

\* the frame objects that receiving datagram d, with outcome ub, makes READY:
\* AddChunk set their last missing bit
Completes(d, ub) ==
  LET r == HandlePacket(RS, d, ub)
      obj == QFind(r.q, ReadHeader(d.hdr).id)
  IN IF /\ obj # 0
        /\ r.fr[obj].ready_seen
        /\ (r.hist.constructed # hist.constructed \/ ~frames[obj].ready_seen)
     THEN {obj} ELSE {}

\* after receiving d the frame obj is READY with init_chunk_timer_ and
\* frame_drop_timer_ cancelled and request_resend_ false, and the grabbed
\* callback was called with the frame's id, its block and the total_size of
\* the chunk's header
ReadyEffects(d, ub, obj) ==
  LET r == HandlePacket(RS, d, ub)
      f == r.fr[obj]
      header == ReadHeader(d.hdr)
  IN /\ f.status_ = "READY"
     /\ ~f.init_chunk_timer_.armed
     /\ ~f.frame_drop_timer_.armed
     /\ ~f.request_resend_
     /\ r.closures = Append(closures, [id |-> f.ID, data |-> f.data_])
     /\ Len(r.sink) = Len(sink) + 1
     /\ r.sink[Len(r.sink)].id = header.id
     /\ r.sink[Len(r.sink)].buffer = ArenaBytes(r.mem, f.data_, header.total_size)
     /\ r.counts.assembled_count_ = counts.assembled_count_ + 1

InitHandlerRuns(obj) ==
  frames'[obj].init_chunk_timer_.queued < frames[obj].init_chunk_timer_.queued

ResendHandlerRuns(obj) ==
  frames'[obj].resend_timer_.queued < frames[obj].resend_timer_.queued

\* In a step that opens the NAK loop of a frame (request_resend_ becomes
\* true, its frame-drop timer or resend timer becomes armed) or that emits a
\* request, the handler of that frame's expired init-chunk timer runs, or
\* the resend handler of a frame whose loop that handler had opened.
OpenedByInitTimeout ==
  /\ \A obj \in DOMAIN frames :
       LET f == frames[obj]
           g == frames'[obj]
       IN /\ (g.request_resend_ /\ ~f.request_resend_) => InitHandlerRuns(obj)
          /\ (g.frame_drop_timer_.armed /\ ~f.frame_drop_timer_.armed)
               => InitHandlerRuns(obj)
          /\ (g.resend_timer_.armed /\ ~f.resend_timer_.armed)
               => \/ InitHandlerRuns(obj)
                  \/ ResendHandlerRuns(obj) /\ f.request_resend_
  /\ naks' # naks =>
       \E obj \in DOMAIN frames :
         /\ InitHandlerRuns(obj) \/ (ResendHandlerRuns(obj) /\ frames[obj].request_resend_)
         /\ \A n \in naks' \ naks : ReadHeader(n.hdr).id = frames[obj].ID

\* the frame that datagram d is added to as it was before: the frame of d's
\* id in assembling_queue_, or the frame just constructed for d
FrameBefore(d, ub) ==
  LET r == HandlePacket(RS, d, ub)
      header == ReadHeader(d.hdr)
      obj == QFind(r.q, header.id)
  IN IF r.hist.constructed # hist.constructed
     THEN NewFrame(header.id, Cardinality(DOMAIN r.fr[obj].chunk_bitmap_), r.fr[obj].data_)
     ELSE frames[obj]

\* receiving d adds its chunk to a frame: the frame's bitmap gains a bit
Accepted(d, ub) ==
  LET r == HandlePacket(RS, d, ub)
      obj == QFind(r.q, ReadHeader(d.hdr).id)
  IN /\ obj # 0
     /\ r.fr[obj].state = "alive"
     /\ r.fr[obj].chunk_bitmap_ # FrameBefore(d, ub).chunk_bitmap_

\* C40: every chunk that AddChunk accepts is written inside the data-pool
\* block of its frame: chunk_index * PAYLOAD + chunk_size is at most the
\* block size of data_pool_ (max_data_size), whatever total_size,
\* total_chunks and chunk_size the header of the datagram carries.
C40_WriteInsideOwnBlock ==
  \A d \in Arriving : \A ub \in Outcomes(RS, d) :
    Accepted(d, ub)
      => ReadHeader(d.hdr).chunk_index * PAYLOAD + ReadHeader(d.hdr).chunk_size
           <= data_pool_.BLOCK_SIZE

\* An accepted INIT chunk that leaves the frame incomplete while
\* request_resend_ is false arms the init-chunk timer and no other; any
\* other accepted chunk arms no timer of its frame; no chunk arms a timer
\* of another frame.
ArmedByInitChunkOnly ==
  \A d \in Arriving : \A ub \in Outcomes(RS, d) :
    LET r == HandlePacket(RS, d, ub)
        header == ReadHeader(d.hdr)
        obj == QFind(r.q, header.id)
        f == FrameBefore(d, ub)
    IN /\ Accepted(d, ub) =>
            IF /\ header.transmission_type = 0
               /\ ~f.request_resend_
               /\ ~AllAdded(r.fr[obj].chunk_bitmap_)
            THEN /\ r.fr[obj].init_chunk_timer_.armed
                 /\ r.fr[obj].frame_drop_timer_ = f.frame_drop_timer_
                 /\ r.fr[obj].resend_timer_ = f.resend_timer_
            ELSE \A t \in TimerNames : r.fr[obj][t].armed => f[t].armed
       /\ \A o \in DOMAIN frames : \A t \in TimerNames :
            (o # obj /\ r.fr[o][t].armed) => frames[o][t].armed

\* C26: no request is emitted for a frame and its frame-drop timer is not
\* armed until the handler of its expired init-chunk timer runs; every
\* accepted INIT chunk that leaves the frame incomplete while needs_resend
\* is false re-arms that timer; a RESEND chunk, or a chunk accepted during
\* the NAK loop, arms no timer.
C26_NakLoopOpenedByInitTimeout ==
  []ArmedByInitChunkOnly /\ [][OpenedByInitTimeout]_vars

\* C26 witness: a frame of three chunks holds one chunk, its init-chunk
\* timer has expired and the handler is queued, and the INIT datagram of a
\* second chunk, which re-arms the timer, is about to be received.
C26_Witness ==
  \E d \in Arriving : \E ub \in Outcomes(RS, d) :
    LET header == ReadHeader(d.hdr)
        obj == QFind(assembling_queue_, header.id)
    IN /\ obj # 0
       /\ Accepted(d, ub)
       /\ header.transmission_type = 0
       /\ ~frames[obj].request_resend_
       /\ frames[obj].init_chunk_timer_.queued > 0
       /\ ~frames[obj].init_chunk_timer_.armed
       /\ HandlePacket(RS, d, ub).fr[obj].init_chunk_timer_.armed
       /\ ~AllAdded(HandlePacket(RS, d, ub).fr[obj].chunk_bitmap_)

\* the datagram that carries request header h to the Sender
RequestDatagram(h) == [hdr |-> WireHeader(h), payload |-> <<>>]

\* the requests of a round of frame f name exactly the chunks whose bit is
\* not set, each once and in ascending index, with the frame's id and
\* total_chunks
RoundIsTheUnsetBits(f) ==
  LET reqs == RoundRequests(f, 0)
  IN /\ \A k \in 1 .. Len(reqs) :
          /\ reqs[k].id = f.ID
          /\ reqs[k].total_chunks = Cardinality(DOMAIN f.chunk_bitmap_)
          /\ reqs[k].chunk_index \in DOMAIN f.chunk_bitmap_
          /\ ~f.chunk_bitmap_[reqs[k].chunk_index]
     /\ \A j, k \in 1 .. Len(reqs) :
          j < k => reqs[j].chunk_index < reqs[k].chunk_index
     /\ \A i \in DOMAIN f.chunk_bitmap_ :
          ~f.chunk_bitmap_[i] => \E k \in 1 .. Len(reqs) : reqs[k].chunk_index = i

\* a step in which a handler of the live frame obj runs a round sends the
\* requests of that round, and no others, and arms the resend timer; a
\* resend handler that finds request_resend_ false sends nothing
RoundIsSent ==
  \A obj \in Alive :
    LET f == frames[obj]
    IN /\ (InitHandlerRuns(obj) \/ (ResendHandlerRuns(obj) /\ f.request_resend_))
            => /\ naks' = naks \cup {RequestDatagram(RoundRequests(f, 0)[k]) :
                                       k \in 1 .. Len(RoundRequests(f, 0))}
               /\ frames'[obj].resend_timer_.armed
       /\ (ResendHandlerRuns(obj) /\ ~f.request_resend_) => naks' = naks

RoundEmits(obj) ==
  /\ InitHandlerRuns(obj) \/ (ResendHandlerRuns(obj) /\ frames[obj].request_resend_)
  /\ RoundRequests(frames[obj], 0) # <<>>

\* C28: once a ReceivingFrame is READY or DROPPED its status does not change
\* and no resend request is emitted for it, whatever timer handler runs
\* afterwards.
C28_TerminalFrameSilent ==
  [][\A obj \in Alive :
       (/\ frames[obj].status_ \in {"READY", "DROPPED"}
        /\ frames'[obj].state = "alive"
        /\ hist'.constructed = hist.constructed)
       => /\ frames'[obj].status_ = frames[obj].status_
          /\ ~RoundEmits(obj)]_vars

\* C29: a ReceivingFrame is constructed only when an INIT chunk
\* (transmission_type 0) arrives for an id that has no entry in
\* assembling_queue_; a RESEND chunk never constructs one.
C29_FrameCreatedByInitChunkOnly ==
  \A d \in Arriving : \A ub \in Outcomes(RS, d) :
    HandlePacket(RS, d, ub).hist.constructed # hist.constructed
      => /\ ReadHeader(d.hdr).transmission_type = 0
         /\ QFind(assembling_queue_, ReadHeader(d.hdr).id) = 0

\* datagram d is routed to the path of __HandlePacket that creates a frame
NewFramePath(d) ==
  \/ assembling_queue_ = <<>>
  \/ /\ QFind(assembling_queue_, ReadHeader(d.hdr).id) = 0
     /\ ReadHeader(d.hdr).transmission_type = 0

\* Receiving a datagram on the new-frame path empties dropped_queue_, and
\* for each (id, data) it held the entry of id is gone from
\* assembling_queue_ and data, held until then, is on the free stack once
\* when the drain ends; a datagram on another path leaves dropped_queue_,
\* assembling_queue_ and the data pool alone.
DrainReclaimsOnce ==
  \A d \in Arriving : \A ub \in Outcomes(RS, d) :
    LET r == HandlePacket(RS, d, ub)
        drained == DrainDropped(RS)
    IN IF NewFramePath(d)
       THEN /\ r.dq = <<>>
            /\ \A k \in 1 .. Len(dropped_queue_) :
                 /\ QFind(drained.q, dropped_queue_[k].id) = 0
                 /\ FreeCount(data_pool_, BlockIndex(dropped_queue_[k].data)) = 0
                 /\ FreeCount(drained.dp, BlockIndex(dropped_queue_[k].data)) = 1
       ELSE /\ r.dq = dropped_queue_
            /\ r.q = assembling_queue_
            /\ r.dp = data_pool_

\* the handler of frame obj's frame-drop timer runs in this step
DropHandlerRuns(obj) ==
  frames'[obj].frame_drop_timer_.queued < frames[obj].frame_drop_timer_.queued

\* a step in which a frame-drop handler runs leaves assembling_queue_ and
\* the data pool as they are, and dropped_queue_ loses entries only in a
\* step that receives a datagram on the new-frame path
DropHandlerReclaimsNothing ==
  /\ (\E obj \in DOMAIN frames : DropHandlerRuns(obj))
       => /\ assembling_queue_' = assembling_queue_
          /\ data_pool_' = data_pool_
  /\ (\E k \in 1 .. Len(dropped_queue_) :
         k > Len(dropped_queue_') \/ dropped_queue_'[k] # dropped_queue_[k])
       => \E d \in Arriving : NewFramePath(d) /\ recv_buf' # 0

\* C30: dropped frames are reclaimed only on the path of __HandlePacket that
\* creates a frame; that path drains dropped_queue_ completely, erasing the
\* entry of each drained (id, data) from assembling_queue_ and releasing
\* data to the data pool exactly once; the frame-drop callback neither
\* erases an entry nor releases a block.
C30_DroppedReclaimedOnNewFramePath ==
  []DrainReclaimsOnce /\ [][DropHandlerReclaimsNothing]_vars

\* the data-pool block of the frame of entry k of assembling_queue_
EntryBlock(k) == BlockIndex(frames[assembling_queue_[k].obj].data_)

\* C24: every entry of assembling_queue_ owns a data-pool block that is not
\* on the free stack, no two entries own the same block, every block that
\* is off the free stack belongs to an entry (entry and block go together),
\* and the queue holds at most buffer_size frames.
C24_EntryOwnsBlock ==
  /\ \A k \in 1 .. Len(assembling_queue_) :
       FreeCount(data_pool_, EntryBlock(k)) = 0
  /\ \A j, k \in 1 .. Len(assembling_queue_) :
       j # k => EntryBlock(j) # EntryBlock(k)
  /\ \A idx \in 0 .. data_pool_.BUFFER_SIZE - 1 :
       FreeCount(data_pool_, idx) = 0
         => \E k \in 1 .. Len(assembling_queue_) : EntryBlock(k) = idx
  /\ Len(assembling_queue_) <= RecvSlots

\* Receiving datagram d now would leave everything as it is: the queue, the
\* frames with their bitmaps, status and timers, the pools, the reassembly
\* bytes, the counters and the deliveries, whatever the build makes of it.
Discarded(d) ==
  /\ \A ub \in Outcomes(RS, d) :
       LET r == HandlePacket(RS, d, ub) IN [r EXCEPT !.fr = Collect(@)] = RS
  /\ LET released == Release(raw_pool_, recv_buf)
     IN AcquirePtr(released) = recv_buf /\ AcquirePool(released) = raw_pool_

\* datagram d is routed to a frame in assembling_queue_ whose status is DROPPED
ToDropped(d) ==
  LET obj == QFind(assembling_queue_, ReadHeader(d.hdr).id)
  IN obj # 0 /\ frames[obj].status_ = "DROPPED"

\* C18: a chunk that arrives for a frame whose status is DROPPED, while the
\* entry is in assembling_queue_, changes neither that frame's bitmap, data,
\* timers or status nor anything else, and no new frame is created.
C18_ChunkForDroppedDiscarded ==
  \A d \in net : (recv_buf # 0 /\ ToDropped(d)) => Discarded(d)

\* C18 witness: a DROPPED frame is in assembling_queue_, one of its chunks is
\* missing, and the datagram of that chunk is on the wire.
C18_Witness ==
  \E d \in net :
    LET header == ReadHeader(d.hdr)
        obj == QFind(assembling_queue_, header.id)
    IN /\ ToDropped(d)
       /\ header.chunk_index \in DOMAIN frames[obj].chunk_bitmap_
       /\ ~frames[obj].chunk_bitmap_[header.chunk_index]
       /\ recv_buf # 0

\* the chunk_index of datagram d is not below total_chunks of the frame d is
\* routed to: the frame of its id in assembling_queue_, or else the frame
\* that its own header describes
Malformed(d) ==
  LET header == ReadHeader(d.hdr)
      obj == QFind(assembling_queue_, header.id)
  IN IF obj # 0
     THEN header.chunk_index >= Cardinality(DOMAIN frames[obj].chunk_bitmap_)
     ELSE header.chunk_index >= header.total_chunks

\* C17: a datagram whose chunk_index is not below total_chunks of the frame
\* it is routed to is dropped silently: receiving it changes no bitmap bit,
\* reassembly byte, timer or counter, creates no frame, and no assertion
\* fails and nothing is read or written out of range.
C17_MalformedDroppedSilently ==
  \A d \in net : (recv_buf # 0 /\ Malformed(d)) => Discarded(d)

\* datagram d is routed to a frame in assembling_queue_ that has the bit of
\* d's chunk set
ToAddedChunk(d) ==
  LET header == ReadHeader(d.hdr)
      obj == QFind(assembling_queue_, header.id)
  IN /\ obj # 0
     /\ header.chunk_index \in DOMAIN frames[obj].chunk_bitmap_
     /\ frames[obj].chunk_bitmap_[header.chunk_index]

\* C19: a chunk whose bitmap bit is already set leaves the bitmap, the
\* reassembly bytes, the timers and the counters as they are and does not
\* complete the frame a second time.
C19_DuplicateChunkIdempotent ==
  \A d \in net : (recv_buf # 0 /\ ToAddedChunk(d)) => Discarded(d)

\* C19 witness: a frame that is READY and not yet released, and one that is
\* still ASSEMBLING with its init-chunk timer expired, each with the datagram
\* of a chunk they already hold on the wire.
C19_Witness ==
  /\ recv_buf # 0
  /\ \E d \in net :
       /\ ToAddedChunk(d)
       /\ frames[QFind(assembling_queue_, ReadHeader(d.hdr).id)].status_ = "READY"
  /\ \E d \in net :
       LET f == frames[QFind(assembling_queue_, ReadHeader(d.hdr).id)]
       IN /\ ToAddedChunk(d)
          /\ ReadHeader(d.hdr).transmission_type = 0
          /\ f.status_ = "ASSEMBLING"
          /\ ~f.init_chunk_timer_.armed
          /\ ~f.request_resend_

\* a caller's count of pointers to block idx of the harness pool
HeldCount(idx) ==
  Cardinality({k \in 1 .. Len(mp.held) :
                 mp.held[k] = mp.pool.start + idx * mp.pool.BLOCK_SIZE})

\* C8: after any sequence of Acquire and Release calls every block is either
\* on the free stack exactly once or held by exactly one caller (so no index
\* is on the free stack twice), and Acquire never returns a block that a
\* caller still holds.
C8_BlockFreeOrHeldOnce ==
  mp.op # "new" =>
    /\ \A idx \in 0 .. mp.pool.BUFFER_SIZE - 1 :
         FreeCount(mp.pool, idx) + HeldCount(idx) = 1
    /\ (mp.op = "Acquire" /\ mp.ret # 0) =>
         Cardinality({k \in 1 .. Len(mp.held) : mp.held[k] = mp.ret}) = 1

\* nullptr, an address outside the arena, or one not on a block boundary
BadPointer(pool, ptr) ==
  \/ ptr = 0
  \/ ptr < pool.start
  \/ ptr >= pool.start + pool.BLOCK_SIZE * pool.BUFFER_SIZE
  \/ (ptr - pool.start) % pool.BLOCK_SIZE # 0

\* C9: Release with a null pointer, a pointer outside the arena or a pointer
\* that is not block-aligned leaves the free stack as it was before the call.
C9_BadReleaseIsNoOp ==
  (mp.op = "Release" /\ BadPointer(mp.pool, mp.arg)) =>
    mp.pool.free_blocks_ = mp.before

\* C9 witness: Release was called with the first address past the arena (a
\* multiple of the block size) while a block was held, and with an address
\* inside a block.
C9_Witness ==
  /\ mp.op = "Release"
  /\ mp.arg = mp.pool.start + mp.pool.BLOCK_SIZE * mp.pool.BUFFER_SIZE
  /\ mp.held # <<>>
  /\ mp.pool.free_blocks_ = mp.before

\* C10: a header converted to network order and back equals the original,
\* for the by-value functions and for the in-place ones, on either host.
C10_RoundTrip ==
  cdc.phase = "back" => cdc.back = cdc.host

\* C10 witness: the in-place round trip of a header whose bytes were really
\* swapped on the wire and whose other fields are all-ones.
C10_Witness ==
  /\ cdc.phase = "back"
  /\ cdc.way = "inplace"
  /\ cdc.le
  /\ cdc.host.id = <<1, 2, 3, 4>>
  /\ cdc.wire.id = <<4, 3, 2, 1>>
  /\ cdc.host.chunk_size = <<255, 255, 255, 255>>
  /\ cdc.host.total_chunks = <<255, 255>>
  /\ cdc.back = cdc.host

=============================================================================
